---- MODULE Spec2Model ----
\* Kuantum Kitchen (src/main.py): orders in superposition, the kitchen's
\* handlers, and the day loop of run_game, as a state machine.
\*
\* Python objects are modelled by reference: an Order is a reference (a
\* number) into `heap`, and every collection holds references, so that `in`,
\* `remove` and aliasing behave as they do for Python objects without __eq__.
\* Floats are binary64 values, and float arithmetic rounds as Python's does.
EXTENDS Integers, Sequences, FiniteSets, TLC

VARIABLES
    day, resources, active_orders, completed_orders, failed_orders,
    available_orders, score, customer_satisfaction, reality_stability,
    timelines, current_phase, max_active_orders, special_events,
    heap, next_ref, pc, days_left, orders_left,
    puzzle, attempt, checked, returned, probability_bonus

vars == <<day, resources, active_orders, completed_orders, failed_orders,
          available_orders, score, customer_satisfaction, reality_stability,
          timelines, current_phase, max_active_orders, special_events,
          heap, next_ref, pc, days_left, orders_left,
          puzzle, attempt, checked, returned, probability_bonus>>

\* what solve_puzzle and the lines of prepare_order around it work on: the
\* MiniPuzzle, the attempts made, the calls of check_solution made, what
\* solve_puzzle returned, and probability_bonus
puzzle_vars == <<puzzle, attempt, checked, returned, probability_bonus>>

\* ---------------------------------------------------------------- bounds
\* a run advances through at most MaxDays days and constructs at most
\* MaxOrders Order objects, or LongDays days and LongOrders Order objects
MaxDays == 1
MaxOrders == 2
LongDays == 2
LongOrders == 1
\* most orders one generate_orders call creates
MaxBatch == 2
\* largest time limit drawn for an order
MaxTimeLimit == 3
\* largest timeline id drawn for an order
MaxTimeline == 2
\* a resource requirement is drawn among the CostSpread + 1 largest values of
\* its range, the number of outcomes among the OutcomeSpread + 1 largest
CostSpread == 0
OutcomeSpread == 0
\* random.choice(list(ResourceType)) draws among the first KindDraws kinds
KindDraws == 1
\* largest amount a Resource Boost draws
MaxBoost == 2
\* a Reality Distortion draws its loss among the LossSpread + 1 largest values
LossSpread == 0
\* random.random() is drawn among 0, 1/2, 3/4, ..., 1 - 1/2^RandBits, and
\* the largest value it returns
RandBits == 4

\* ------------------------------------------------------------- utilities
Min(a, b) == IF a <= b THEN a ELSE b

Max(a, b) == IF a >= b THEN a ELSE b

Range(s) == {s[i] : i \in 1..Len(s)}

\* the spread + 1 largest values of lo..hi
Top(lo, hi, spread) == Max(lo, hi - spread)..hi

\* list.pop(i) with a 0-based index
Pop(s, idx) == [k \in 1..(Len(s) - 1) |-> IF k <= idx THEN s[k] ELSE s[k + 1]]

RECURSIVE IndexOf(_, _, _)
IndexOf(s, x, k) ==
    IF k > Len(s) THEN 0 ELSE IF s[k] = x THEN k ELSE IndexOf(s, x, k + 1)

\* the last position of x in s, 0 when x is not in s
RECURSIVE LastIndexOf(_, _, _)
LastIndexOf(s, x, k) ==
    IF k = 0 THEN 0 ELSE IF s[k] = x THEN k ELSE LastIndexOf(s, x, k - 1)

\* list.remove(x): drops the first occurrence of x
Remove(s, x) ==
    LET k == IndexOf(s, x, 1) IN IF k = 0 THEN s ELSE Pop(s, k - 1)

\* ---------------------------------------------------- natural numbers
\* A natural number too wide for one machine integer is the sequence of its
\* digits in base LimbBase, least significant first, without leading zeros.
LimbBits == 3 * 5

LimbBase == 2 ^ LimbBits

Limb(a, i) == IF i <= Len(a) THEN a[i] ELSE 0

RECURSIVE BNorm(_)
BNorm(a) ==
    IF a = <<>> THEN <<>>
    ELSE IF a[Len(a)] = 0 THEN BNorm(SubSeq(a, 1, Len(a) - 1)) ELSE a

RECURSIVE BFromNat(_)
BFromNat(n) == IF n = 0 THEN <<>> ELSE <<n % LimbBase>> \o BFromNat(n \div LimbBase)

RECURSIVE BToNat(_)
BToNat(a) == IF a = <<>> THEN 0 ELSE a[1] + LimbBase * BToNat(Tail(a))

RECURSIVE BAddC(_, _, _, _)
BAddC(a, b, i, carry) ==
    IF i > Max(Len(a), Len(b)) THEN (IF carry = 0 THEN <<>> ELSE <<carry>>)
    ELSE LET t == Limb(a, i) + Limb(b, i) + carry
         IN  <<t % LimbBase>> \o BAddC(a, b, i + 1, t \div LimbBase)

BAdd(a, b) == BAddC(a, b, 1, 0)

RECURSIVE BSubC(_, _, _, _)
BSubC(a, b, i, borrow) ==
    IF i > Len(a) THEN <<>>
    ELSE LET t == a[i] - Limb(b, i) - borrow
         IN  IF t < 0 THEN <<t + LimbBase>> \o BSubC(a, b, i + 1, 1)
             ELSE <<t>> \o BSubC(a, b, i + 1, 0)

\* a - b, for a >= b
BSub(a, b) == BNorm(BSubC(a, b, 1, 0))

RECURSIVE BCmpAt(_, _, _)
BCmpAt(a, b, i) ==
    IF i = 0 THEN 0
    ELSE IF a[i] < b[i] THEN -1
    ELSE IF a[i] > b[i] THEN 1
    ELSE BCmpAt(a, b, i - 1)

\* -1, 0 or 1 as a is less than, equal to or greater than b
BCmp(a, b) ==
    IF Len(a) < Len(b) THEN -1
    ELSE IF Len(a) > Len(b) THEN 1
    ELSE BCmpAt(a, b, Len(a))

RECURSIVE BMulC(_, _, _, _)
BMulC(a, k, i, carry) ==
    IF i > Len(a) THEN BFromNat(carry)
    ELSE LET t == a[i] * k + carry
         IN  <<t % LimbBase>> \o BMulC(a, k, i + 1, t \div LimbBase)

\* a * k, for 0 <= k < LimbBase
BMulSmall(a, k) == BNorm(BMulC(a, k, 1, 0))

\* a * 2^n
BShl(a, n) ==
    IF a = <<>> THEN <<>>
    ELSE [i \in 1..(n \div LimbBits) |-> 0] \o BMulSmall(a, 2 ^ (n % LimbBits))

\* a \div 2^n
BShr(a, n) ==
    LET q == n \div LimbBits
        r == n % LimbBits
        b == IF q >= Len(a) THEN <<>> ELSE SubSeq(a, q + 1, Len(a))
    IN  BNorm([i \in 1..Len(b) |->
                  b[i] \div (2 ^ r) + (Limb(b, i + 1) % (2 ^ r)) * 2 ^ (LimbBits - r)])

RECURSIVE BitLength(_)
BitLength(x) == IF x = 0 THEN 0 ELSE 1 + BitLength(x \div 2)

BBitLen(a) == IF a = <<>> THEN 0 ELSE LimbBits * (Len(a) - 1) + BitLength(a[Len(a)])

\* bit i of a, bit 1 being the least significant
BBit(a, i) == (Limb(a, (i - 1) \div LimbBits + 1) \div (2 ^ ((i - 1) % LimbBits))) % 2

BOdd(a) == BBit(a, 1) = 1

\* one step of long division by b: q2 and r2 are the quotient and the
\* remainder so far, doubled to take in one more bit of the dividend, a zero
BDivBit(q2, r2, b) ==
    IF BCmp(r2, b) >= 0 THEN [q |-> BAdd(q2, <<1>>), r |-> BSub(r2, b)]
    ELSE [q |-> q2, r |-> r2]

\* i more steps of long division by b; the remainder is always less than b
RECURSIVE BDivStep(_, _, _)
BDivStep(b, i, d) ==
    IF i = 0 \/ BCmp(d.r, b) >= 0 THEN d
    ELSE BDivStep(b, i - 1, BDivBit(BAdd(d.q, d.q), BAdd(d.r, d.r), b))

\* the quotient q and the remainder r of a * 2^k by b, for b <= a < 2 * b or
\* a < b
BDivMod(a, b, k) ==
    BDivStep(b, k, IF BCmp(a, b) >= 0 THEN [q |-> <<1>>, r |-> BSub(a, b)]
                   ELSE [q |-> <<>>, r |-> a])

\* ------------------------------------------------------------ binary64
\* A Python float is s * m * 2^e with s the sign, m a natural number of
\* exactly 53 bits (or zero) and e the exponent. Every operation rounds its
\* exact result to the nearest such number, ties to the even mantissa.
FZero == [s |-> 1, m |-> <<>>, e |-> 0]

\* q, the bits of m above its low sh bits, rounded by those low bits: up
\* when they are more than half of 2^sh, or just half with q odd
Nearest(q, half) ==
    IF half > 0 \/ (half = 0 /\ BOdd(q)) THEN BAdd(q, <<1>>) ELSE q

\* the float of sign s and mantissa q, of 53 bits or, after a round up of
\* all ones, of 54
Carried(s, q, e) ==
    IF BBitLen(q) > 53 THEN [s |-> s, m |-> BShr(q, 1), e |-> e + 1]
    ELSE [s |-> s, m |-> q, e |-> e]

\* m of more than 53 bits, q its bits above the low sh
Narrowed(s, m, e, sh, q) ==
    Carried(s, Nearest(q, BCmp(BSub(m, BShl(q, sh)), BShl(<<1>>, sh - 1))), e + sh)

\* m of len bits
Rounded(s, m, e, len) ==
    IF len <= 53 THEN [s |-> s, m |-> BShl(m, 53 - len), e |-> e - (53 - len)]
    ELSE Narrowed(s, m, e, len - 53, BShr(m, len - 53))

\* s * m * 2^e rounded to a float
FRound(s, m, e) == IF m = <<>> THEN FZero ELSE Rounded(s, m, e, BBitLen(m))

\* float(n)
FromInt(n) == FRound(IF n < 0 THEN -1 ELSE 1, BFromNat(IF n < 0 THEN -n ELSE n), 0)

FNeg(x) == [x EXCEPT !.s = -x.s]

\* x + y with the mantissas a and b of x and y at the common exponent e
Added(x, y, a, b, e) ==
    IF x.s = y.s THEN FRound(x.s, BAdd(a, b), e)
    ELSE IF BCmp(a, b) = 0 THEN FZero
    ELSE IF BCmp(a, b) > 0 THEN FRound(x.s, BSub(a, b), e)
    ELSE FRound(y.s, BSub(b, a), e)

\* x + y
FAdd(x, y) ==
    IF x.m = <<>> THEN y
    ELSE IF y.m = <<>> THEN x
    ELSE Added(x, y, BShl(x.m, x.e - Min(x.e, y.e)), BShl(y.m, y.e - Min(x.e, y.e)),
               Min(x.e, y.e))

\* x - y
FSub(x, y) == FAdd(x, FNeg(y))

\* the float of sign s nearest to the quotient d.q * 2^e, one more bit set
\* below d.q when the division left a remainder d.r
Quotient(s, d, e) ==
    IF d.r = <<>> THEN FRound(s, d.q, e)
    ELSE FRound(s, BAdd(BShl(d.q, 1), <<1>>), e - 1)

\* x / y, for y # 0: from the quotient to 57 bits or more
FDiv(x, y) ==
    IF x.m = <<>> THEN FZero
    ELSE Quotient(x.s * y.s, BDivMod(x.m, y.m, 57), x.e - y.e - 57)

\* x * n for an int n
FMulInt(x, n) ==
    FRound(IF n < 0 THEN -x.s ELSE x.s, BMulSmall(x.m, IF n < 0 THEN -n ELSE n), x.e)

\* -1, 0 or 1 as x is less than, equal to or greater than y
FCmp(x, y) ==
    LET sx == IF x.m = <<>> THEN 0 ELSE x.s
        sy == IF y.m = <<>> THEN 0 ELSE y.s
    IN  IF sx < sy THEN -1
        ELSE IF sx > sy THEN 1
        ELSE IF sx = 0 THEN 0
        ELSE IF x.e < y.e THEN -sx
        ELSE IF x.e > y.e THEN sx
        ELSE sx * BCmp(x.m, y.m)

FLeq(x, y) == FCmp(x, y) <= 0

\* int(x): x with its fraction dropped
FTrunc(x) ==
    IF x.m = <<>> THEN 0
    ELSE x.s * BToNat(IF x.e >= 0 THEN BShl(x.m, x.e) ELSE BShr(x.m, -x.e))

\* the float a literal denotes: the float nearest to n/d
Lit(n, d) == FDiv(FromInt(n), FromInt(d))

\* ------------------------------------------------------------ enumerations
SUPERPOSITION == "SUPERPOSITION"

COLLAPSED == "COLLAPSED"

FAILED == "FAILED"

DELIVERED == "DELIVERED"

OrderState == {SUPERPOSITION, COLLAPSED, FAILED, DELIVERED}

ResourceType == {"QUANTUM_ENERGY", "PROBABILITY_STABILIZER", "TIMELINE_TOKEN"}

TimelineEvent == {"RESOURCE_BOOST", "TIMELINE_SHIFT", "QUANTUM_FLUCTUATION",
                  "REALITY_DISTORTION"}

\* list(ResourceType), in the order of the enum
ResourceList == <<"QUANTUM_ENERGY", "PROBABILITY_STABILIZER", "TIMELINE_TOKEN">>

\* the kinds random.choice(list(ResourceType)) draws from
KindChoices == {ResourceList[k] : k \in 1..Min(3, KindDraws)}

\* Python's None, for Order.actual_outcome: otherwise the 1-based position in
\* possible_outcomes of the dict that actual_outcome refers to
None == 0

\* ------------------------------------------------------------------ Order
\* the float literals of Order.generate_possible_outcomes
Tenth == Lit(1, 10)

TwoTenths == Lit(2, 10)

ThreeTenths == Lit(3, 10)

FourTenths == Lit(4, 10)

SevenTenths == Lit(7, 10)

OneAndHalf == Lit(15, 10)

One == Lit(1, 1)

\* sum(outcome["probability"] for outcome in outcomes[:k]): the floats are
\* added one by one from 0
RECURSIVE SumProb(_, _)
SumProb(outcomes, k) ==
    IF k = 0 THEN FZero
    ELSE FAdd(SumProb(outcomes, k - 1), outcomes[k].probability)

\* for outcome in outcomes: outcome["probability"] /= total_prob
Divided(outcomes, total_prob) ==
    [k \in 1..Len(outcomes) |->
        [outcomes[k] EXCEPT !.probability = FDiv(@, total_prob)]]

\* a faulty normalisation, which leaves the base weights as they are
Unnormalised(outcomes) == outcomes

\* the normalisation: total_prob = sum(...) and the division by it
Normalised(outcomes) == Divided(outcomes, SumProb(outcomes, Len(outcomes)))

\* Order.generate_possible_outcomes() with num_outcomes drawn
generate_possible_outcomes(difficulty, num_outcomes) ==
    LET perfect == [description |-> "Perfect", satisfaction |-> 100,
                    reward_multiplier |-> OneAndHalf,
                    probability |-> FAdd(TwoTenths, FMulInt(Tenth, difficulty))]
        good == [description |-> "Good", satisfaction |-> 80,
                 reward_multiplier |-> One, probability |-> FourTenths]
        mediocre == [description |-> "Mediocre", satisfaction |-> 50,
                     reward_multiplier |-> SevenTenths, probability |-> ThreeTenths]
        poor == [description |-> "Poor", satisfaction |-> 20,
                 reward_multiplier |-> ThreeTenths, probability |-> Tenth]
    IN  Normalised(<<perfect, good>>
                   \o (IF num_outcomes > 2 THEN <<mediocre>> ELSE <<>>)
                   \o (IF num_outcomes > 3 THEN <<poor>> ELSE <<>>))

\* what generate_possible_outcomes returns for each difficulty and each
\* number of outcomes, computed once
GeneratedOutcomes ==
    [difficulty \in 1..5 |->
        [num_outcomes \in 2..4 |-> generate_possible_outcomes(difficulty, num_outcomes)]]

\* Order.__init__(day) with its random draws given
NewOrder(d, time_limit, qe, ps, tt, num_outcomes, timeline) ==
    LET difficulty == Min(1 + d \div 3, 5)
    IN  [state |-> SUPERPOSITION,
         time_limit |-> time_limit,
         time_remaining |-> time_limit,
         difficulty |-> difficulty,
         resource_requirements |->
             [r \in ResourceType |->
                 CASE r = "QUANTUM_ENERGY" -> qe
                   [] r = "PROBABILITY_STABILIZER" -> ps
                   [] r = "TIMELINE_TOKEN" -> tt],
         reward |-> (qe + ps + tt) * 10 + difficulty * 5,
         possible_outcomes |-> GeneratedOutcomes[difficulty][num_outcomes],
         actual_outcome |-> None,
         timeline |-> timeline]

\* every Order that Order(day) can construct, within the bounds
Orders(d) ==
    LET difficulty == Min(1 + d \div 3, 5)
    IN  { NewOrder(d, tl, qe, ps, tt, n, t) :
            tl \in 3..Min(5 + Min(d \div 2, 5), MaxTimeLimit),
            qe \in Top(1, 1 + difficulty, CostSpread),
            ps \in Top(0, difficulty \div 2, CostSpread),
            tt \in Top(0, IF difficulty > 2 THEN 1 ELSE 0, CostSpread),
            n \in Top(2, 4, OutcomeSpread),
            t \in 1..Min(Min(2 + d \div 3, 5), MaxTimeline) }

\* the bias loop of collapse_state, share being
\* bonus_probability / (len(modified_outcomes) - 2)
Biased(outcomes, bonus_probability, share) ==
    [k \in 1..Len(outcomes) |->
        [outcomes[k] EXCEPT !.probability =
            IF outcomes[k].satisfaction >= 80
            THEN FAdd(@, bonus_probability)
            ELSE FSub(@, share)]]

\* the bias of collapse_state and its re-normalisation: modified_outcomes is
\* a shallow copy, so the dicts it changes are the dicts of possible_outcomes
BiasOutcomes(outcomes, bonus_probability) ==
    Normalised(Biased(outcomes, bonus_probability,
                      FDiv(bonus_probability, FromInt(Len(outcomes) - 2))))

\* cumulative_prob after each round of the selection loop of collapse_state
Cumulative(outcomes) == [k \in 1..Len(outcomes) |-> SumProb(outcomes, k)]

\* probability_bonus of a solved puzzle, 0.2
Bonus == TwoTenths

\* the lists an order in SUPERPOSITION holds, their bias by Bonus and the
\* running totals of both, computed once
KnownOutcomes == {GeneratedOutcomes[d][n] : d \in 1..5, n \in 2..4}

BiasedOutcomes == [outcomes \in KnownOutcomes |-> BiasOutcomes(outcomes, Bonus)]

SampledOutcomes == KnownOutcomes \cup {BiasedOutcomes[outcomes] : outcomes \in KnownOutcomes}

CumulativeProbs == [outcomes \in SampledOutcomes |-> Cumulative(outcomes)]

\* the selection loop of collapse_state: the first outcome at which
\* cumulative_prob reaches rand, None when the loop ends without a break
RECURSIVE SelectOutcome(_, _, _)
SelectOutcome(cumulative_prob, rand, k) ==
    IF k > Len(cumulative_prob) THEN None
    ELSE IF FLeq(rand, cumulative_prob[k]) THEN k
    ELSE SelectOutcome(cumulative_prob, rand, k + 1)

\* a faulty collapse_state, which collapses the order whatever its state
collapse_state_again(order, bonus_probability, rand) ==
    LET modified_outcomes ==
            IF bonus_probability = Bonus
            THEN BiasedOutcomes[order.possible_outcomes]
            ELSE order.possible_outcomes
    IN  [order EXCEPT
            !.possible_outcomes = modified_outcomes,
            !.actual_outcome =
                SelectOutcome(CumulativeProbs[modified_outcomes], rand, 1),
            !.state = COLLAPSED]

\* Order.collapse_state(bonus_probability), random.random() returning rand.
\* bonus_probability is 0 or Bonus, and the possible_outcomes of an order in
\* SUPERPOSITION is one of KnownOutcomes: the bias and the running totals
\* are looked up where they were computed
collapse_state(order, bonus_probability, rand) ==
    IF order.state # SUPERPOSITION THEN order
    ELSE LET modified_outcomes ==
                 IF bonus_probability = Bonus
                 THEN BiasedOutcomes[order.possible_outcomes]
                 ELSE order.possible_outcomes
         IN  [order EXCEPT
                 !.possible_outcomes = modified_outcomes,
                 !.actual_outcome =
                     SelectOutcome(CumulativeProbs[modified_outcomes], rand, 1),
                 !.state = COLLAPSED]

\* a faulty Order.update_time, which lets the order live at time_remaining 0
Order_update_time_late(order) ==
    LET t == order.time_remaining - 1
    IN  IF t < 0 /\ order.state = SUPERPOSITION
        THEN [order |-> [order EXCEPT !.time_remaining = t, !.state = FAILED],
              ret |-> TRUE]
        ELSE [order |-> [order EXCEPT !.time_remaining = t], ret |-> FALSE]

\* a faulty Order.update_time, which takes two units of time
Order_update_time_twice(order) ==
    LET t == order.time_remaining - 2
    IN  IF t <= 0 /\ order.state = SUPERPOSITION
        THEN [order |-> [order EXCEPT !.time_remaining = t, !.state = FAILED],
              ret |-> TRUE]
        ELSE [order |-> [order EXCEPT !.time_remaining = t], ret |-> FALSE]

\* a faulty Order.update_time, which does not count time_remaining down
Order_update_time_stopped(order) ==
    IF order.time_remaining <= 0 /\ order.state = SUPERPOSITION
    THEN [order |-> [order EXCEPT !.state = FAILED], ret |-> TRUE]
    ELSE [order |-> order, ret |-> FALSE]

\* Order.update_time(): the order afterwards, and the value returned
Order_update_time(order) ==
    LET t == order.time_remaining - 1
    IN  IF t <= 0 /\ order.state = SUPERPOSITION
        THEN [order |-> [order EXCEPT !.time_remaining = t, !.state = FAILED],
              ret |-> TRUE]
        ELSE [order |-> [order EXCEPT !.time_remaining = t], ret |-> FALSE]

\* ---------------------------------------------------------------- timelines
\* self.timelines is a defaultdict(list): here the sequence of its items in
\* insertion order, each [key, orders]
RECURSIVE KeyIndex(_, _, _)
KeyIndex(tl, key, k) ==
    IF k > Len(tl) THEN 0 ELSE IF tl[k].key = key THEN k ELSE KeyIndex(tl, key, k + 1)

\* timelines[key] creates the key when it is missing
TimelineTouch(tl, key) ==
    IF KeyIndex(tl, key, 1) = 0 THEN Append(tl, [key |-> key, orders |-> <<>>]) ELSE tl

\* timelines[key].append(ref)
TimelineAppend(tl, key, ref) ==
    LET t == TimelineTouch(tl, key)
        k == KeyIndex(t, key, 1)
    IN  [t EXCEPT ![k].orders = Append(@, ref)]

\* if ref in timelines[key]: timelines[key].remove(ref)
TimelineRemove(tl, key, ref) ==
    LET t == TimelineTouch(tl, key)
        k == KeyIndex(t, key, 1)
    IN  [t EXCEPT ![k].orders = Remove(@, ref)]

\* the orders of every timeline, in the order timelines.items() yields them
RECURSIVE AllTimelineOrders(_, _)
AllTimelineOrders(tl, k) ==
    IF k > Len(tl) THEN <<>> ELSE tl[k].orders \o AllTimelineOrders(tl, k + 1)

\* the loop of TIMELINE_SHIFT: each order of all_orders gets timeline
\* assign[k] and is appended to that timeline of the fresh index
RECURSIVE ShiftTimelines(_, _, _, _)
ShiftTimelines(all_orders, assign, k, tl) ==
    IF k > Len(all_orders) THEN tl
    ELSE ShiftTimelines(all_orders, assign, k + 1,
                        TimelineAppend(tl, assign[k], all_orders[k]))

\* the references Python still holds: an Order that no collection and no
\* timeline refers to is garbage
Referenced(avail, active, completed, failed, tl) ==
    Range(avail) \cup Range(active) \cup Range(completed) \cup Range(failed)
        \cup Range(AllTimelineOrders(tl, 1))

Collect(h, refs) == [r \in (DOMAIN h) \cap refs |-> h[r]]

\* ----------------------------------------------------------- KuantumKitchen
\* the KuantumKitchen object (self) in the current state
Kitchen ==
    [day |-> day, resources |-> resources, active_orders |-> active_orders,
     completed_orders |-> completed_orders, failed_orders |-> failed_orders,
     available_orders |-> available_orders, score |-> score,
     customer_satisfaction |-> customer_satisfaction,
     reality_stability |-> reality_stability, timelines |-> timelines,
     current_phase |-> current_phase, max_active_orders |-> max_active_orders,
     special_events |-> special_events, heap |-> heap]

\* the state becomes the object self, less the orders nothing refers to
Becomes(self) ==
    /\ day' = self.day
    /\ resources' = self.resources
    /\ active_orders' = self.active_orders
    /\ completed_orders' = self.completed_orders
    /\ failed_orders' = self.failed_orders
    /\ available_orders' = self.available_orders
    /\ score' = self.score
    /\ customer_satisfaction' = self.customer_satisfaction
    /\ reality_stability' = self.reality_stability
    /\ timelines' = self.timelines
    /\ current_phase' = self.current_phase
    /\ max_active_orders' = self.max_active_orders
    /\ special_events' = self.special_events
    /\ heap' = Collect(self.heap,
                       Referenced(self.available_orders, self.active_orders,
                                  self.completed_orders, self.failed_orders,
                                  self.timelines))

\* what a handler returns: the object afterwards and its (success, message)
Ret(self, success, message) == [self |-> self, success |-> success, message |-> message]

\* how far a run is followed: the days and the Order objects left to it
Budgets == {[days |-> MaxDays, orders |-> MaxOrders],
            [days |-> LongDays, orders |-> LongOrders]}

\* no puzzle is being solved
NoPuzzle ==
    /\ puzzle = [type |-> "", solution |-> <<>>, holes |-> {}, operations |-> <<>>]
    /\ attempt = 0
    /\ checked = 0
    /\ returned = FALSE
    /\ probability_bonus = FZero

\* KuantumKitchen.__init__, and run_game about to enter its loop
Init ==
    /\ \E b \in Budgets : days_left = b.days /\ orders_left = b.orders
    /\ day = 1
    /\ resources = [r \in ResourceType |->
                       CASE r = "QUANTUM_ENERGY" -> 10
                         [] r = "PROBABILITY_STABILIZER" -> 5
                         [] r = "TIMELINE_TOKEN" -> 2]
    /\ active_orders = <<>>
    /\ completed_orders = <<>>
    /\ failed_orders = <<>>
    /\ score = 0
    /\ customer_satisfaction = 50
    /\ reality_stability = 100
    /\ timelines = <<>>
    /\ current_phase = "Planning"
    /\ max_active_orders = 3
    /\ available_orders = <<>>
    /\ special_events = <<>>
    /\ heap = <<>>
    /\ next_ref = 1
    /\ pc = "advance_day"
    /\ NoPuzzle

\* generate_orders(): batch holds the Orders constructed, ref the reference
\* of the first of them
generate_orders(self, batch, ref) ==
    [self EXCEPT
        !.available_orders = [k \in 1..Len(batch) |-> ref + k - 1],
        !.heap = [r \in (DOMAIN self.heap) \cup (ref..(ref + Len(batch) - 1)) |->
                     IF r >= ref THEN batch[r - ref + 1] ELSE self.heap[r]]]

\* a faulty accept_order, which leaves the order in available_orders
accept_order_keeps(self, order_idx) ==
    IF order_idx < 0 \/ order_idx >= Len(self.available_orders)
    THEN Ret(self, FALSE, "Invalid order index")
    ELSE IF Len(self.active_orders) >= self.max_active_orders
    THEN Ret(self, FALSE, "You can only handle max_active_orders active orders at once")
    ELSE LET order == self.available_orders[order_idx + 1]
         IN  Ret([self EXCEPT
                     !.active_orders = Append(@, order),
                     !.timelines = TimelineAppend(@, self.heap[order].timeline, order)],
                 TRUE, "Accepted order")

\* a faulty accept_order, which refuses only above max_active_orders
accept_order_over(self, order_idx) ==
    IF order_idx < 0 \/ order_idx >= Len(self.available_orders)
    THEN Ret(self, FALSE, "Invalid order index")
    ELSE IF Len(self.active_orders) > self.max_active_orders
    THEN Ret(self, FALSE, "You can only handle max_active_orders active orders at once")
    ELSE LET order == self.available_orders[order_idx + 1]
         IN  Ret([self EXCEPT
                     !.active_orders = Append(@, order),
                     !.timelines = TimelineAppend(@, self.heap[order].timeline, order),
                     !.available_orders = Pop(@, order_idx)],
                 TRUE, "Accepted order")

\* accept_order(order_idx)
accept_order(self, order_idx) ==
    IF order_idx < 0 \/ order_idx >= Len(self.available_orders)
    THEN Ret(self, FALSE, "Invalid order index")
    ELSE IF Len(self.active_orders) >= self.max_active_orders
    THEN Ret(self, FALSE, "You can only handle max_active_orders active orders at once")
    ELSE LET order == self.available_orders[order_idx + 1]
         IN  Ret([self EXCEPT
                     !.active_orders = Append(@, order),
                     !.timelines = TimelineAppend(@, self.heap[order].timeline, order),
                     !.available_orders = Pop(@, order_idx)],
                 TRUE, "Accepted order")

\* a faulty reject_order, which lets a negative index through to list.pop
reject_order_wrapping(self, order_idx) ==
    IF order_idx >= Len(self.available_orders)
    THEN Ret(self, FALSE, "Invalid order index")
    ELSE Ret([self EXCEPT
                 !.available_orders =
                     Pop(@, IF order_idx < 0 THEN Len(@) + order_idx ELSE order_idx),
                 !.customer_satisfaction = Max(0, @ - 2)],
             TRUE, "Order rejected")

\* reject_order(order_idx)
reject_order(self, order_idx) ==
    IF order_idx < 0 \/ order_idx >= Len(self.available_orders)
    THEN Ret(self, FALSE, "Invalid order index")
    ELSE Ret([self EXCEPT
                 !.available_orders = Pop(@, order_idx),
                 !.customer_satisfaction = Max(0, @ - 2)],
             TRUE, "Order rejected")

\* the first resource, in the order of the resource_requirements dict, whose
\* balance is below the requirement; "" when every balance suffices
FirstMissing(self, order) ==
    LET short(r) == self.resources[r] < order.resource_requirements[r]
    IN  IF short("QUANTUM_ENERGY") THEN "QUANTUM_ENERGY"
        ELSE IF short("PROBABILITY_STABILIZER") THEN "PROBABILITY_STABILIZER"
        ELSE IF short("TIMELINE_TOKEN") THEN "TIMELINE_TOKEN"
        ELSE ""

\* probability_bonus = 0.2 if puzzle_completed else 0
ProbabilityBonus(puzzle_completed) == IF puzzle_completed THEN Bonus ELSE FZero

\* int(order.reward * order.actual_outcome["reward_multiplier"])
FinalReward(reward, reward_multiplier) == FTrunc(FMulInt(reward_multiplier, reward))

\* final_reward for every reward an order can carry and every multiplier,
\* computed once
FinalRewards ==
    [reward \in 0..((1 + 5 + 5 \div 2 + 1) * 10 + 5 * 5) |->
        [reward_multiplier \in {OneAndHalf, One, SevenTenths, ThreeTenths} |->
            FinalReward(reward, reward_multiplier)]]

\* prepare_order from "Update satisfaction based on outcome" on: outcome is
\* the dict order.actual_outcome refers to, consumed the resources after the
\* debit
Settle(self, ref, order, collapsed, consumed, outcome, refund_resource) ==
    Ret([self EXCEPT
            !.heap[ref] = collapsed,
            !.customer_satisfaction =
                Min(100, Max(0, @ + (outcome.satisfaction - 50) \div 10)),
            !.score = @ + FinalRewards[order.reward][outcome.reward_multiplier],
            !.reality_stability =
                IF outcome.satisfaction < 50
                THEN Max(0, @ - (50 - outcome.satisfaction) \div 10)
                ELSE @,
            !.resources =
                IF outcome.satisfaction >= 80
                THEN [consumed EXCEPT ![refund_resource] =
                         @ + 1 + (IF outcome.satisfaction >= 90 THEN 1 ELSE 0)]
                ELSE consumed],
        TRUE, "Prepared order")

\* prepare_order after collapse_state: message "TypeError" stands for the
\* exception that order.actual_outcome["satisfaction"] raises when the
\* selection loop selected no outcome
Collapsed(self, ref, order, collapsed, consumed, refund_resource) ==
    IF collapsed.actual_outcome = None
    THEN Ret([self EXCEPT !.resources = consumed, !.heap[ref] = collapsed],
             FALSE, "TypeError")
    ELSE Settle(self, ref, order, collapsed, consumed,
                collapsed.possible_outcomes[collapsed.actual_outcome], refund_resource)

\* a faulty prepare_order, which takes what there is of each resource before
\* it reports the shortage
PrepareDebiting(self, ref, order, puzzle_completed, rand, refund_resource) ==
    IF order.state # SUPERPOSITION
    THEN Ret(self, FALSE, "Cannot prepare order")
    ELSE IF FirstMissing(self, order) # ""
    THEN Ret([self EXCEPT !.resources = [r \in ResourceType |->
                 Max(0, self.resources[r] - order.resource_requirements[r])]],
             FALSE, "Not enough " \o FirstMissing(self, order))
    ELSE Collapsed(self, ref, order,
                   collapse_state(order, ProbabilityBonus(puzzle_completed), rand),
                   [r \in ResourceType |->
                       self.resources[r] - order.resource_requirements[r]],
                   refund_resource)

\* a faulty prepare_order, which debits without checking the balances
PrepareUnchecked(self, ref, order, puzzle_completed, rand, refund_resource) ==
    IF order.state # SUPERPOSITION
    THEN Ret(self, FALSE, "Cannot prepare order")
    ELSE Collapsed(self, ref, order,
                   collapse_state(order, ProbabilityBonus(puzzle_completed), rand),
                   [r \in ResourceType |->
                       self.resources[r] - order.resource_requirements[r]],
                   refund_resource)

\* a faulty prepare_order, which does not check the state of the order
PrepareAnyState(self, ref, order, puzzle_completed, rand, refund_resource) ==
    IF FirstMissing(self, order) # ""
    THEN Ret(self, FALSE, "Not enough " \o FirstMissing(self, order))
    ELSE Collapsed(self, ref, order,
                   collapse_state(order, ProbabilityBonus(puzzle_completed), rand),
                   [r \in ResourceType |->
                       self.resources[r] - order.resource_requirements[r]],
                   refund_resource)

\* prepare_order once the index is known to be valid
Prepare(self, ref, order, puzzle_completed, rand, refund_resource) ==
    IF order.state # SUPERPOSITION
    THEN Ret(self, FALSE, "Cannot prepare order")
    ELSE IF FirstMissing(self, order) # ""
    THEN Ret(self, FALSE, "Not enough " \o FirstMissing(self, order))
    ELSE Collapsed(self, ref, order,
                   collapse_state(order, ProbabilityBonus(puzzle_completed), rand),
                   [r \in ResourceType |->
                       self.resources[r] - order.resource_requirements[r]],
                   refund_resource)

\* prepare_order(order_idx): puzzle_completed is what solve_puzzle returns,
\* rand what random.random() returns in collapse_state, refund_resource what
\* random.choice returns
prepare_order(self, order_idx, puzzle_completed, rand, refund_resource) ==
    IF order_idx < 0 \/ order_idx >= Len(self.active_orders)
    THEN Ret(self, FALSE, "Invalid order index")
    ELSE Prepare(self, self.active_orders[order_idx + 1],
                 self.heap[self.active_orders[order_idx + 1]],
                 puzzle_completed, rand, refund_resource)

\* the ways resource_reward units can fall on the resource kinds drawn
RewardDraws(resource_reward) ==
    {g \in [ResourceType -> 0..resource_reward] :
        /\ g["QUANTUM_ENERGY"] + g["PROBABILITY_STABILIZER"] + g["TIMELINE_TOKEN"]
               = resource_reward
        /\ \A r \in ResourceType \ KindChoices : g[r] = 0}

\* a faulty resource_reward, a unit for every 10 points of satisfaction
ResourceRewardTenths(order) ==
    IF order.actual_outcome = None THEN 0
    ELSE order.possible_outcomes[order.actual_outcome].satisfaction \div 10

\* resource_reward of deliver_order, 0 for an order that has no outcome
ResourceReward(order) ==
    IF order.actual_outcome = None THEN 0
    ELSE order.possible_outcomes[order.actual_outcome].satisfaction \div 20

\* a faulty deliver_order, which adds the reward of the order to the score
DeliveredScoring(self, order_idx, gain) ==
    LET ref == self.active_orders[order_idx + 1]
    IN  Ret([self EXCEPT
                !.active_orders = Pop(@, order_idx),
                !.completed_orders = Append(@, ref),
                !.timelines = TimelineRemove(@, self.heap[ref].timeline, ref),
                !.heap[ref].state = DELIVERED,
                !.score = @ + self.heap[ref].reward,
                !.resources = [r \in ResourceType |-> @[r] + gain[r]]],
            TRUE, "Delivered order")

\* a faulty deliver_order, which credits the delivery to customer_satisfaction
DeliveredPleasing(self, order_idx, gain) ==
    LET ref == self.active_orders[order_idx + 1]
    IN  Ret([self EXCEPT
                !.active_orders = Pop(@, order_idx),
                !.completed_orders = Append(@, ref),
                !.timelines = TimelineRemove(@, self.heap[ref].timeline, ref),
                !.heap[ref].state = DELIVERED,
                !.customer_satisfaction = Min(100, @ + 1),
                !.resources = [r \in ResourceType |-> @[r] + gain[r]]],
            TRUE, "Delivered order")

\* deliver_order from "Transfer from active to completed" on: gain[r] is how
\* many of the resource_reward draws of random.choice fell on resource r
Delivered(self, order_idx, gain) ==
    LET ref == self.active_orders[order_idx + 1]
    IN  Ret([self EXCEPT
                !.active_orders = Pop(@, order_idx),
                !.completed_orders = Append(@, ref),
                !.timelines = TimelineRemove(@, self.heap[ref].timeline, ref),
                !.heap[ref].state = DELIVERED,
                !.resources = [r \in ResourceType |-> @[r] + gain[r]]],
            TRUE, "Delivered order")

\* a faulty deliver_order, which does not check the state of the order
deliver_order_unchecked(self, order_idx, gain) ==
    IF order_idx < 0 \/ order_idx >= Len(self.active_orders)
    THEN Ret(self, FALSE, "Invalid order index")
    ELSE Delivered(self, order_idx, gain)

\* deliver_order(order_idx)
deliver_order(self, order_idx, gain) ==
    IF order_idx < 0 \/ order_idx >= Len(self.active_orders)
    THEN Ret(self, FALSE, "Invalid order index")
    ELSE IF self.heap[self.active_orders[order_idx + 1]].state # COLLAPSED
    THEN Ret(self, FALSE, "Cannot deliver order")
    ELSE Delivered(self, order_idx, gain)

\* a faulty first loop of update_time, which ticks every active order
\* whatever its state
RECURSIVE TickOrdersAll(_, _, _, _)
TickOrdersAll(active, k, h, expired) ==
    IF k > Len(active) THEN [heap |-> h, expired |-> expired]
    ELSE LET r == active[k]
             u == Order_update_time(h[r])
         IN  TickOrdersAll(active, k + 1, [h EXCEPT ![r] = u.order],
                           IF u.ret THEN Append(expired, r) ELSE expired)

\* the first loop of KuantumKitchen.update_time, over active[k..]:
\* Order.update_time() on each active order in SUPERPOSITION, collecting
\* expired_orders
RECURSIVE TickOrders(_, _, _, _)
TickOrders(active, k, h, expired) ==
    IF k > Len(active) THEN [heap |-> h, expired |-> expired]
    ELSE LET r == active[k]
             u == Order_update_time(h[r])
         IN  IF h[r].state = SUPERPOSITION
             THEN TickOrders(active, k + 1, [h EXCEPT ![r] = u.order],
                             IF u.ret THEN Append(expired, r) ELSE expired)
             ELSE TickOrders(active, k + 1, h, expired)

\* a faulty second loop of update_time, which takes the 5 points without
\* stopping at 0
RECURSIVE HandleExpiredBelowZero(_, _, _)
HandleExpiredBelowZero(self, expired, k) ==
    IF k > Len(expired) THEN self
    ELSE HandleExpiredBelowZero([self EXCEPT
                                    !.active_orders = Remove(@, expired[k]),
                                    !.failed_orders = Append(@, expired[k]),
                                    !.customer_satisfaction = @ - 5,
                                    !.reality_stability = @ - 5],
                                expired, k + 1)

\* the second loop of update_time, over expired[k..]
RECURSIVE HandleExpired(_, _, _)
HandleExpired(self, expired, k) ==
    IF k > Len(expired) THEN self
    ELSE HandleExpired([self EXCEPT
                           !.active_orders = Remove(@, expired[k]),
                           !.failed_orders = Append(@, expired[k]),
                           !.customer_satisfaction = Max(0, @ - 5),
                           !.reality_stability = Max(0, @ - 5)],
                       expired, k + 1)

\* KuantumKitchen.update_time(): success is the value it returns
update_time(self) ==
    LET ticked == TickOrders(self.active_orders, 1, self.heap, <<>>)
    IN  Ret(HandleExpired([self EXCEPT !.heap = ticked.heap], ticked.expired, 1),
            Len(ticked.expired) > 0, "")

\* ------------------------------------------------------------ special events
\* what advance_day and trigger_special_event draw at random: whether an
\* event fires (event "NONE" when random.random() >= 0.3), which one, and the
\* draws that event makes
Draw(event, resource, amount, assign, pick, loss) ==
    [event |-> event, resource |-> resource, amount |-> amount,
     assign |-> assign, pick |-> pick, loss |-> loss]

EventDraws(self) ==
    LET all_orders == AllTimelineOrders(self.timelines, 1)
        top == Min(Min(2 + self.day \div 3, 5), MaxTimeline)
    IN  {Draw("NONE", "QUANTUM_ENERGY", 0, <<>>, 0, 0)}
        \cup {Draw("RESOURCE_BOOST", r, a, <<>>, 0, 0) :
                 r \in KindChoices, a \in 2..Min(5, MaxBoost)}
        \cup {Draw("TIMELINE_SHIFT", "QUANTUM_ENERGY", 0, f, 0, 0) :
                 f \in [1..Len(all_orders) -> 1..top]}
        \cup {Draw("QUANTUM_FLUCTUATION", "QUANTUM_ENERGY", 0, <<>>, k, 0) :
                 k \in (IF self.active_orders = <<>> THEN {0}
                        ELSE 1..Len(self.active_orders))}
        \cup {Draw("REALITY_DISTORTION", "QUANTUM_ENERGY", 0, <<>>, 0, l) :
                 l \in Top(5, 15, LossSpread)}

\* trigger_special_event() with its draws given
trigger_special_event(self, draw) ==
    LET all_orders == AllTimelineOrders(self.timelines, 1)
        logged == [self EXCEPT !.special_events = Append(@, draw.event)]
        picked == self.active_orders[draw.pick]
    IN  CASE draw.event = "RESOURCE_BOOST" ->
                 [logged EXCEPT !.resources[draw.resource] = @ + draw.amount]
          [] draw.event = "TIMELINE_SHIFT" ->
                 [logged EXCEPT
                     !.timelines = ShiftTimelines(all_orders, draw.assign, 1, <<>>),
                     !.heap = [r \in DOMAIN self.heap |->
                                  LET k == LastIndexOf(all_orders, r, Len(all_orders))
                                  IN  IF k = 0 THEN self.heap[r]
                                      ELSE [self.heap[r] EXCEPT
                                               !.timeline = draw.assign[k]]]]
          [] draw.event = "QUANTUM_FLUCTUATION" ->
                 IF self.active_orders # <<>> /\ self.heap[picked].state = SUPERPOSITION
                 THEN [logged EXCEPT !.heap[picked].time_remaining =
                          Min(self.heap[picked].time_limit, @ + 2)]
                 ELSE logged
          [] draw.event = "REALITY_DISTORTION" ->
                 [logged EXCEPT !.reality_stability = Max(0, @ - draw.loss)]

\* advance_day() with its draws given
advance_day(self, draw) ==
    LET after == IF draw.event = "NONE" THEN self
                 ELSE trigger_special_event(self, draw)
        daily_resources == [r \in ResourceType |->
            CASE r = "QUANTUM_ENERGY" -> 5 + after.day \div 2
              [] r = "PROBABILITY_STABILIZER" -> 2 + after.day \div 3
              [] r = "TIMELINE_TOKEN" -> 1 + after.day \div 4]
        stability_gain == 5 + after.customer_satisfaction \div 20
    IN  [after EXCEPT
            !.resources = [r \in ResourceType |-> @[r] + daily_resources[r]],
            !.reality_stability = Min(100, @ + stability_gain),
            !.day = @ + 1,
            !.max_active_orders = 3 + Min((after.day + 1) \div 3, 4)]

\* check_game_over(): success is game_over, message the reason
check_game_over(self) ==
    IF self.reality_stability <= 0
    THEN Ret(self, TRUE, "GAME OVER: Reality has completely collapsed!")
    ELSE IF self.customer_satisfaction <= 0
    THEN Ret(self, TRUE, "GAME OVER: Your restaurant has lost all its customers!")
    ELSE Ret(self, FALSE, "")

\* ------------------------------------------------- run_game and the phases
\* the indexes a command can name: one below and one above the valid ones
Indexes == -1..MaxBatch

\* the largest value random.random() returns, 1 - 2^-53
TopRand == [s |-> 1, m |-> BSub(BShl(<<1>>, 53), <<1>>), e |-> -53]

\* the values random.random() is drawn from
Rands == {FDiv(FromInt(2 ^ k - 1), FromInt(2 ^ k)) : k \in 0..RandBits} \cup {TopRand}

\* run_game: advance_day(), the first statement of its loop
AdvanceDay ==
    /\ pc = "advance_day"
    /\ days_left > 0
    /\ \E draw \in EventDraws(Kitchen) : Becomes(advance_day(Kitchen, draw))
    /\ days_left' = days_left - 1
    /\ pc' = "check_game_over"
    /\ UNCHANGED <<next_ref, orders_left>>
    /\ UNCHANGED puzzle_vars

\* run_game: check_game_over(), and the break when the game is over
CheckGameOver ==
    /\ pc = "check_game_over"
    /\ pc' = IF check_game_over(Kitchen).success THEN "show_game_summary"
             ELSE "run_planning_phase"
    /\ UNCHANGED <<day, resources, active_orders, completed_orders, failed_orders,
                   available_orders, score, customer_satisfaction, reality_stability,
                   timelines, current_phase, max_active_orders, special_events,
                   heap, next_ref, days_left, orders_left>>
    /\ UNCHANGED puzzle_vars

\* run_planning_phase up to its loop: current_phase and generate_orders()
RunPlanningPhase ==
    /\ pc = "run_planning_phase"
    /\ LET num_orders == Min(Min(3 + Min(day \div 2, 5), MaxBatch), orders_left)
       IN  /\ \E batch \in [1..num_orders -> Orders(day)] :
                 Becomes(generate_orders([Kitchen EXCEPT !.current_phase = "Planning"],
                                         batch, next_ref))
           /\ next_ref' = next_ref + num_orders
           /\ orders_left' = orders_left - num_orders
    /\ pc' = "planning"
    /\ UNCHANGED days_left
    /\ UNCHANGED puzzle_vars

\* Planning phase, command a#
AcceptOrder(order_idx) ==
    /\ pc = "planning"
    /\ Becomes(accept_order(Kitchen, order_idx).self)
    /\ UNCHANGED <<next_ref, pc, days_left, orders_left>>
    /\ UNCHANGED puzzle_vars

\* Planning phase, command r#
RejectOrder(order_idx) ==
    /\ pc = "planning"
    /\ Becomes(reject_order(Kitchen, order_idx).self)
    /\ UNCHANGED <<next_ref, pc, days_left, orders_left>>
    /\ UNCHANGED puzzle_vars

\* a faulty command n of the Planning phase, which enters the Delivery phase
PlanningSkipsExecution ==
    /\ pc = "planning"
    /\ IF active_orders = <<>>
       THEN UNCHANGED <<pc, current_phase>>
       ELSE /\ pc' = "delivery"
            /\ current_phase' = "Delivery"
    /\ UNCHANGED <<day, resources, active_orders, completed_orders, failed_orders,
                   available_orders, score, customer_satisfaction, reality_stability,
                   timelines, max_active_orders, special_events, heap, next_ref,
                   days_left, orders_left>>
    /\ UNCHANGED puzzle_vars

\* a faulty command n of the Planning phase, which does not look at
\* active_orders
PlanningProceedsEmpty ==
    /\ pc = "planning"
    /\ pc' = "execution"
    /\ current_phase' = "Execution"
    /\ UNCHANGED <<day, resources, active_orders, completed_orders, failed_orders,
                   available_orders, score, customer_satisfaction, reality_stability,
                   timelines, max_active_orders, special_events, heap, next_ref,
                   days_left, orders_left>>
    /\ UNCHANGED puzzle_vars

\* Planning phase, command n: with an active order run_planning_phase
\* returns True and run_game enters run_execution_phase
PlanningProceed ==
    /\ pc = "planning"
    /\ IF active_orders = <<>>
       THEN UNCHANGED <<pc, current_phase>>
       ELSE /\ pc' = "execution"
            /\ current_phase' = "Execution"
    /\ UNCHANGED <<day, resources, active_orders, completed_orders, failed_orders,
                   available_orders, score, customer_satisfaction, reality_stability,
                   timelines, max_active_orders, special_events, heap, next_ref,
                   days_left, orders_left>>
    /\ UNCHANGED puzzle_vars

\* Execution phase, command p#: a TypeError raised by prepare_order ends
\* run_game in main()
PrepareOrder(order_idx, puzzle_completed, rand, refund_resource) ==
    /\ pc = "execution"
    /\ active_orders # <<>>
    /\ LET ret == prepare_order(Kitchen, order_idx, puzzle_completed, rand,
                                refund_resource)
       IN  /\ Becomes(ret.self)
           /\ pc' = IF ret.message = "TypeError" THEN "crashed" ELSE pc
    /\ UNCHANGED <<next_ref, days_left, orders_left>>
    /\ UNCHANGED puzzle_vars

\* Execution phase, command t
UpdateTime ==
    /\ pc = "execution"
    /\ active_orders # <<>>
    /\ Becomes(update_time(Kitchen).self)
    /\ UNCHANGED <<next_ref, pc, days_left, orders_left>>
    /\ UNCHANGED puzzle_vars

\* a faulty command n of the Execution phase, which does not look at the
\* states of the active orders
ExecutionProceedsUnprepared ==
    /\ pc = "execution"
    /\ active_orders # <<>>
    /\ pc' = "delivery"
    /\ current_phase' = "Delivery"
    /\ UNCHANGED <<day, resources, active_orders, completed_orders, failed_orders,
                   available_orders, score, customer_satisfaction, reality_stability,
                   timelines, max_active_orders, special_events, heap, next_ref,
                   days_left, orders_left>>
    /\ UNCHANGED puzzle_vars

\* Execution phase, command n: with no active order in SUPERPOSITION
\* run_execution_phase returns True and run_game enters run_delivery_phase
ExecutionProceed ==
    /\ pc = "execution"
    /\ active_orders # <<>>
    /\ IF \E k \in 1..Len(active_orders) : heap[active_orders[k]].state = SUPERPOSITION
       THEN UNCHANGED <<pc, current_phase>>
       ELSE /\ pc' = "delivery"
            /\ current_phase' = "Delivery"
    /\ UNCHANGED <<day, resources, active_orders, completed_orders, failed_orders,
                   available_orders, score, customer_satisfaction, reality_stability,
                   timelines, max_active_orders, special_events, heap, next_ref,
                   days_left, orders_left>>
    /\ UNCHANGED puzzle_vars

\* Execution phase: the loop finds no active order and returns True
ExecutionNoOrders ==
    /\ pc = "execution"
    /\ active_orders = <<>>
    /\ pc' = "delivery"
    /\ current_phase' = "Delivery"
    /\ UNCHANGED <<day, resources, active_orders, completed_orders, failed_orders,
                   available_orders, score, customer_satisfaction, reality_stability,
                   timelines, max_active_orders, special_events, heap, next_ref,
                   days_left, orders_left>>
    /\ UNCHANGED puzzle_vars

\* Delivery phase, command d#
DeliverOrder(order_idx) ==
    /\ pc = "delivery"
    /\ active_orders # <<>>
    /\ \E gain \in RewardDraws(
             IF order_idx < 0 \/ order_idx >= Len(active_orders) THEN 0
             ELSE ResourceReward(heap[active_orders[order_idx + 1]])) :
           Becomes(deliver_order(Kitchen, order_idx, gain).self)
    /\ UNCHANGED <<next_ref, pc, days_left, orders_left>>
    /\ UNCHANGED puzzle_vars

\* the penalty loop of the forced end of day: 3 points for each active order
RECURSIVE Abandon(_, _)
Abandon(n, satisfaction) ==
    IF n = 0 THEN satisfaction ELSE Abandon(n - 1, Max(0, satisfaction - 3))

\* a faulty forced end of day, which charges the penalty and leaves the
\* orders active
EndDayKeeps ==
    /\ pc = "delivery"
    /\ active_orders # <<>>
    /\ Becomes([Kitchen EXCEPT
                   !.customer_satisfaction = Abandon(Len(active_orders), @)])
    /\ pc' = "advance_day"
    /\ UNCHANGED <<next_ref, days_left, orders_left>>
    /\ UNCHANGED puzzle_vars

\* Delivery phase, command n confirmed with y while orders are active
EndDay ==
    /\ pc = "delivery"
    /\ active_orders # <<>>
    /\ Becomes([Kitchen EXCEPT
                   !.customer_satisfaction = Abandon(Len(active_orders), @),
                   !.active_orders = <<>>,
                   !.timelines = <<>>])
    /\ pc' = "advance_day"
    /\ UNCHANGED <<next_ref, days_left, orders_left>>
    /\ UNCHANGED puzzle_vars

\* Delivery phase: the loop finds no active order and returns True
DeliveryNoOrders ==
    /\ pc = "delivery"
    /\ active_orders = <<>>
    /\ pc' = "advance_day"
    /\ UNCHANGED <<day, resources, active_orders, completed_orders, failed_orders,
                   available_orders, score, customer_satisfaction, reality_stability,
                   timelines, current_phase, max_active_orders, special_events,
                   heap, next_ref, days_left, orders_left>>
    /\ UNCHANGED puzzle_vars

\* command q confirmed with y, in any phase: run_game leaves its loop
Quit ==
    /\ pc \in {"planning", "execution", "delivery"}
    /\ (pc # "planning") => (active_orders # <<>>)
    /\ pc' = "show_game_summary"
    /\ UNCHANGED <<day, resources, active_orders, completed_orders, failed_orders,
                   available_orders, score, customer_satisfaction, reality_stability,
                   timelines, current_phase, max_active_orders, special_events,
                   heap, next_ref, days_left, orders_left>>
    /\ UNCHANGED puzzle_vars

Next ==
    \/ AdvanceDay
    \/ CheckGameOver
    \/ RunPlanningPhase
    \/ \E order_idx \in Indexes : AcceptOrder(order_idx)
    \/ \E order_idx \in Indexes : RejectOrder(order_idx)
    \/ PlanningProceed
    \/ \E order_idx \in Indexes, puzzle_completed \in BOOLEAN, rand \in Rands,
         refund_resource \in KindChoices :
           PrepareOrder(order_idx, puzzle_completed, rand, refund_resource)
    \/ UpdateTime
    \/ ExecutionProceed
    \/ ExecutionNoOrders
    \/ \E order_idx \in Indexes : DeliverOrder(order_idx)
    \/ EndDay
    \/ DeliveryNoOrders
    \/ Quit

Spec == Init /\ [][Next]_vars

\* ------------------------------------------------------------ a late day
\* The kitchen at the top of run_game's loop on day 8, as these seven days of
\* play leave it: every advance_day fires a Reality Distortion of 15 points;
\* the orders accepted each day cost, in Quantum Energy only,
\*   day 2: 2, 2, 2    day 3: 3, 3       day 4: 3, 3, 3    day 5: 1, 3, 3, 3
\*   day 6: 4, 3       day 7: 4, 3       day 8: 4, 4, 4
\* each is prepared with its puzzle failed and comes out
\*   day 2: Perfect, Poor, Poor          day 3: Perfect, Perfect
\*   day 4: Mediocre, Perfect, Poor      day 5: Poor, Perfect, Poor, Perfect
\*   day 6: Poor, Poor                   day 7: Perfect, Perfect
\*   day 8: Perfect, Poor, Perfect
\* with every refund falling on Probability Stabilizer; each day is ended
\* with its orders still active, and on day 8 the four orders not accepted
\* are rejected.
LateInit ==
    /\ days_left = MaxDays
    /\ orders_left = MaxOrders
    /\ day = 8
    /\ resources = [r \in ResourceType |->
                       CASE r = "QUANTUM_ENERGY" -> 0
                         [] r = "PROBABILITY_STABILIZER" -> 46
                         [] r = "TIMELINE_TOKEN" -> 13]
    /\ active_orders = <<>>
    /\ completed_orders = <<>>
    /\ failed_orders = <<>>
    /\ score = 767
    /\ customer_satisfaction = 11
    /\ reality_stability = 15
    /\ timelines = <<>>
    /\ current_phase = "Delivery"
    /\ max_active_orders = 5
    /\ available_orders = <<>>
    /\ special_events = [k \in 1..7 |-> "REALITY_DISTORTION"]
    /\ heap = <<>>
    /\ next_ref = 1
    /\ pc = "advance_day"
    /\ NoPuzzle

SpecLate == LateInit /\ [][Next]_vars

\* ------------------------------------------------------------ a short day
\* The kitchen of the late day in the Execution phase of day 9: advance_day
\* fired no event, run_planning_phase generated the seven orders of the day
\* (3 + min(9 // 2, 5)), and after the commands a1, a1, n the first two are
\* active. Each order has time limit 3, costs 5 Quantum Energy, 2 Probability
\* Stabilizers and 1 Timeline Token, has four possible outcomes and is on
\* timeline 1: the 9 Quantum Energy pay for one of them.
ShortInit ==
    /\ days_left = 0
    /\ orders_left = 0
    /\ day = 9
    /\ resources = [r \in ResourceType |->
                       CASE r = "QUANTUM_ENERGY" -> 9
                         [] r = "PROBABILITY_STABILIZER" -> 50
                         [] r = "TIMELINE_TOKEN" -> 16]
    /\ active_orders = <<1, 2>>
    /\ completed_orders = <<>>
    /\ failed_orders = <<>>
    /\ score = 767
    /\ customer_satisfaction = 11
    /\ reality_stability = 20
    /\ timelines = <<[key |-> 1, orders |-> <<1, 2>>]>>
    /\ current_phase = "Execution"
    /\ max_active_orders = 6
    /\ available_orders = <<3, 4, 5, 6, 7>>
    /\ special_events = [k \in 1..7 |-> "REALITY_DISTORTION"]
    /\ heap = [r \in 1..7 |-> NewOrder(9, 3, 5, 2, 1, 4, 1)]
    /\ next_ref = 8
    /\ pc = "execution"
    /\ NoPuzzle

\* the commands of the Execution and Delivery phases
ShortNext ==
    \/ \E order_idx \in Indexes, puzzle_completed \in BOOLEAN, rand \in Rands,
         refund_resource \in KindChoices :
           PrepareOrder(order_idx, puzzle_completed, rand, refund_resource)
    \/ UpdateTime
    \/ ExecutionProceed
    \/ ExecutionNoOrders
    \/ \E order_idx \in Indexes : DeliverOrder(order_idx)
    \/ EndDay
    \/ DeliveryNoOrders
    \/ Quit

\* the short day with a player who, in the Execution phase, does not stop
\* issuing the command t while it still changes something
SpecShort == ShortInit /\ [][ShortNext]_vars /\ WF_vars(UpdateTime)

\* --------------------------------------------------- the hardest orders
\* The kitchen at the top of run_game's loop on day 11, as these ten days of
\* play leave it: no advance_day fires an event; every order costs one
\* Quantum Energy and nothing else; each day as many orders as
\* max_active_orders allows are accepted and the others rejected; each
\* accepted order is prepared with its puzzle solved and comes out Perfect,
\* with its refund falling on Quantum Energy; each day is ended with its
\* orders still active. The orders of the day that follows have difficulty 5.
HardInit ==
    /\ days_left = MaxDays
    /\ orders_left = MaxOrders
    /\ day = 11
    /\ resources = [r \in ResourceType |->
                       CASE r = "QUANTUM_ENERGY" -> 133
                         [] r = "PROBABILITY_STABILIZER" -> 40
                         [] r = "TIMELINE_TOKEN" -> 22]
    /\ active_orders = <<>>
    /\ completed_orders = <<>>
    /\ failed_orders = <<>>
    /\ score = 1791
    /\ customer_satisfaction = 82
    /\ reality_stability = 100
    /\ timelines = <<>>
    /\ current_phase = "Delivery"
    /\ max_active_orders = 6
    /\ available_orders = <<>>
    /\ special_events = <<>>
    /\ heap = <<>>
    /\ next_ref = 1
    /\ pc = "advance_day"
    /\ NoPuzzle

SpecHard == HardInit /\ [][Next]_vars

\* ------------------------------------------------------------- a full day
\* The kitchen in the Planning phase of day 2, the first day of play, after
\* the commands a1, a1: the first advance_day fired no event,
\* run_planning_phase generated the four orders of the day (3 + 2 // 2), and
\* the first two were accepted. Each order has time limit 3, costs two
\* Quantum Energy, has two possible outcomes and is on timeline 1.
BusyDay ==
    /\ days_left = MaxDays
    /\ orders_left = 0
    /\ day = 2
    /\ resources = [r \in ResourceType |->
                       CASE r = "QUANTUM_ENERGY" -> 15
                         [] r = "PROBABILITY_STABILIZER" -> 7
                         [] r = "TIMELINE_TOKEN" -> 3]
    /\ active_orders = <<1, 2>>
    /\ completed_orders = <<>>
    /\ failed_orders = <<>>
    /\ score = 0
    /\ customer_satisfaction = 50
    /\ reality_stability = 100
    /\ timelines = <<[key |-> 1, orders |-> <<1, 2>>]>>
    /\ max_active_orders = 3
    /\ available_orders = <<3, 4>>
    /\ special_events = <<>>
    /\ heap = [r \in 1..4 |-> NewOrder(2, 3, 2, 0, 0, 2, 1)]
    /\ next_ref = 5

BusyInit ==
    /\ BusyDay
    /\ current_phase = "Planning"
    /\ pc = "planning"
    /\ NoPuzzle

SpecBusy == BusyInit /\ [][Next]_vars

\* ------------------------------------------------------------- MiniPuzzle
\* Python strings are sequences of characters here, so that split, strip and
\* lower can be computed; ">" stands for the character U+27E9 of the kets.
\* A MiniPuzzle is [type, solution, holes]: self.sequence is self.solution
\* with None at the positions of holes.
\* the difficulty of the puzzles, that of the orders of day 2
PuzzleDifficulty == 1
\* SEQUENCE puzzles draw their numbers from 1..SeqDigits
SeqDigits == 2
\* most characters the player types for one attempt
MaxInput == 4

Digits == <<"1", "2", "3", "4", "5", "6", "7", "8", "9">>

\* the subsets of 1..length that removals draws of a position not yet None
\* leave as None
Holes(length, removals) == {h \in SUBSET (1..length) : Cardinality(h) = removals}

\* setup_puzzle, type SEQUENCE
SequencePuzzles(difficulty) ==
    {[type |-> "SEQUENCE", solution |-> sequence, holes |-> h, operations |-> <<>>] :
        sequence \in [1..(3 + difficulty) -> 1..SeqDigits],
        h \in Holes(3 + difficulty, Min(3 + difficulty - 2, difficulty + 1))}

patterns == << <<"#", ".", "#", ".">>, <<"O", "X", "O", "X">>,
               <<"^", "v", "<", ">">>, <<"1", "0", "1", "0">> >>

\* setup_puzzle, type PATTERN: the pattern repeated up to length symbols
PatternPuzzles(difficulty) ==
    {[type |-> "PATTERN",
      solution |-> [k \in 1..(4 + difficulty * 2) |-> <<patterns[p][((k - 1) % 4) + 1]>>],
      holes |-> h, operations |-> <<>>] :
        p \in 1..Len(patterns),
        h \in Holes(4 + difficulty * 2, Min(4 + difficulty * 2 - 4, difficulty * 2))}

\* setup_puzzle, type PROBABILITY: the answer is "1/dice_sides"
ProbabilityPuzzles ==
    {[type |-> "PROBABILITY", solution |-> <<"1", "/", Digits[dice_sides]>>,
      holes |-> {}, operations |-> <<>>] : dice_sides \in 2..6}

Ket(c) == <<"|", c, ">">>

\* setup_puzzle, type QUANTUM_STATE: the loop over self.operations, from
\* operation k on, for the initial states |0> and |1>
RECURSIVE FinalState(_, _, _, _)
FinalState(initial_state, operations, k, final_state) ==
    IF k > Len(operations) THEN final_state
    ELSE FinalState(initial_state, operations, k + 1,
             LET other == IF initial_state = Ket("0") THEN Ket("1") ELSE Ket("0")
             IN  CASE operations[k] = "X" ->
                          IF final_state = initial_state THEN other ELSE initial_state
                   [] operations[k] = "H" ->
                          IF final_state = Ket("0") THEN Ket("+")
                          ELSE IF final_state = Ket("1") THEN Ket("-")
                          ELSE IF initial_state = Ket("0") THEN Ket("-") ELSE Ket("+")
                   [] OTHER -> final_state)

\* a faulty setup_puzzle, type QUANTUM_STATE, with a number of operations
\* that is difficulty / 2 rounded up
QuantumPuzzlesHalf(difficulty) ==
    {[type |-> "QUANTUM_STATE",
      solution |-> IF initial_state \in {Ket("0"), Ket("1")}
                   THEN FinalState(initial_state, operations, 1, initial_state)
                   ELSE IF Len(operations) % 2 = 0 THEN Ket("+") ELSE Ket("-"),
      holes |-> {},
      operations |-> operations] :
        initial_state \in {Ket("0"), Ket("1"), Ket("+"), Ket("-")},
        operations \in [1..((difficulty + 1) \div 2) -> {"X", "Z", "H"}]}

\* setup_puzzle, type QUANTUM_STATE: operations is self.operations, which
\* the other types of puzzle do not have
QuantumPuzzles(difficulty) ==
    {[type |-> "QUANTUM_STATE",
      solution |-> IF initial_state \in {Ket("0"), Ket("1")}
                   THEN FinalState(initial_state, operations, 1, initial_state)
                   ELSE IF Len(operations) % 2 = 0 THEN Ket("+") ELSE Ket("-"),
      holes |-> {},
      operations |-> operations] :
        initial_state \in {Ket("0"), Ket("1"), Ket("+"), Ket("-")},
        operations \in [1..(1 + difficulty \div 2) -> {"X", "Z", "H"}]}

\* str.split(): the words of text between its spaces
RECURSIVE Split(_, _, _, _)
Split(text, k, word, words) ==
    IF k > Len(text)
    THEN IF word = <<>> THEN words ELSE Append(words, word)
    ELSE IF text[k] = " "
    THEN Split(text, k + 1, <<>>, IF word = <<>> THEN words ELSE Append(words, word))
    ELSE Split(text, k + 1, Append(word, text[k]), words)

\* str.strip(): text without the spaces at its ends
RECURSIVE Strip(_)
Strip(text) ==
    IF text = <<>> THEN text
    ELSE IF Head(text) = " " THEN Strip(Tail(text))
    ELSE IF text[Len(text)] = " " THEN Strip(SubSeq(text, 1, Len(text) - 1))
    ELSE text

\* str.lower(), for the letters that are typed
Lower(text) ==
    [k \in 1..Len(text) |->
        CASE text[k] = "X" -> "x" [] text[k] = "O" -> "o" [] OTHER -> text[k]]

\* int(word) succeeds: the words typed hold digits and letters only
IsInt(word) == \A k \in 1..Len(word) : \E d \in 1..9 : word[k] = Digits[d]

\* int(word) for a word of digits
RECURSIVE IntOf(_, _)
IntOf(word, k) ==
    IF k = 0 THEN 0
    ELSE 10 * IntOf(word, k - 1) + (CHOOSE d \in 1..9 : word[k] = Digits[d])

\* parse_user_input(user_input): none says that it returned None
parse_user_input(self, text) ==
    CASE self.type = "SEQUENCE" ->
             LET words == Split(text, 1, <<>>, <<>>)
             IN  IF \A k \in 1..Len(words) : IsInt(words[k])
                 THEN [none |-> FALSE,
                       value |-> [k \in 1..Len(words) |-> IntOf(words[k], Len(words[k]))]]
                 ELSE [none |-> TRUE, value |-> <<>>]
      [] self.type = "PATTERN" -> [none |-> FALSE, value |-> Split(text, 1, <<>>, <<>>)]
      [] OTHER -> [none |-> FALSE, value |-> text]

\* how many of the positions up to i are None in self.sequence
FilledBefore(self, i) == Cardinality({h \in self.holes : h <= i})

\* check_solution(user_answer)
check_solution(self, user_answer) ==
    IF self.type \in {"SEQUENCE", "PATTERN"}
    THEN IF Len(user_answer) # Cardinality(self.holes) THEN FALSE
         ELSE [i \in 1..Len(self.solution) |->
                  IF i \in self.holes THEN user_answer[FilledBefore(self, i)]
                  ELSE self.solution[i]] = self.solution
    ELSE Lower(Strip(user_answer)) = Lower(self.solution)

\* a faulty pass of the loop of solve_puzzle, which does not count the
\* attempt when the input does not parse
solve_puzzle_retrying(self, tries, checks, input) ==
    LET answer == parse_user_input(self, input.text)
    IN  IF input.raised
        THEN [attempt |-> tries + 1, checked |-> checks, correct |-> FALSE]
        ELSE IF answer.none
        THEN [attempt |-> tries, checked |-> checks, correct |-> FALSE]
        ELSE [attempt |-> tries + 1, checked |-> checks + 1,
              correct |-> check_solution(self, answer.value)]

\* one pass of the loop of solve_puzzle, input() giving input: the attempts
\* and the calls of check_solution made so far, and whether the pass ends in
\* return True
solve_puzzle(self, tries, checks, input) ==
    LET answer == parse_user_input(self, input.text)
    IN  IF input.raised \/ answer.none
        THEN [attempt |-> tries + 1, checked |-> checks, correct |-> FALSE]
        ELSE [attempt |-> tries + 1, checked |-> checks + 1,
              correct |-> check_solution(self, answer.value)]

\* the characters the player types: those of the answers, the space and a
\* letter
Keys(self) ==
    CASE self.type = "SEQUENCE" -> {Digits[d] : d \in 1..SeqDigits} \cup {" ", "x"}
      [] self.type = "PATTERN" ->
             {self.solution[k][1] : k \in 1..Len(self.solution)} \cup {" "}
      [] OTHER -> {self.solution[k] : k \in 1..Len(self.solution)} \cup {" "}

\* what input() gives: the text typed, or an exception raised
Typed(text) == [raised |-> FALSE, text |-> text]

\* what input() can give: a text of up to MaxInput characters, or EOFError
Inputs(self) ==
    {[raised |-> TRUE, text |-> <<>>]}
        \cup {Typed(text) : text \in UNION {[1..n -> Keys(self)] : n \in 0..MaxInput}}

\* prepare_order(0) on the full day, in the Execution phase, has found the
\* resources sufficient and constructed the MiniPuzzle of the order: its type
\* is the order's, drawn when the order was constructed
PuzzleInit ==
    /\ BusyDay
    /\ current_phase = "Execution"
    /\ pc = "solve_puzzle"
    /\ \/ puzzle \in SequencePuzzles(PuzzleDifficulty)
       \/ puzzle \in PatternPuzzles(PuzzleDifficulty)
       \/ puzzle \in ProbabilityPuzzles
       \/ puzzle \in QuantumPuzzles(PuzzleDifficulty)
    /\ attempt = 0
    /\ checked = 0
    /\ returned = FALSE
    /\ probability_bonus = FZero

\* solve_puzzle: one pass of its loop, from input() to the next input() or
\* to the return
SolvePuzzle(input) ==
    /\ pc = "solve_puzzle"
    /\ LET pass == solve_puzzle(puzzle, attempt, checked, input)
       IN  /\ attempt' = pass.attempt
           /\ checked' = pass.checked
           /\ returned' = pass.correct
           /\ pc' = IF pass.correct \/ pass.attempt >= 3 THEN "probability_bonus"
                    ELSE "solve_puzzle"
    /\ UNCHANGED <<day, resources, active_orders, completed_orders, failed_orders,
                   available_orders, score, customer_satisfaction, reality_stability,
                   timelines, current_phase, max_active_orders, special_events,
                   heap, next_ref, days_left, orders_left, puzzle,
                   probability_bonus>>

\* prepare_order: probability_bonus = 0.2 if puzzle_completed else 0
SetProbabilityBonus ==
    /\ pc = "probability_bonus"
    /\ probability_bonus' = ProbabilityBonus(returned)
    /\ pc' = "collapse_state"
    /\ UNCHANGED <<day, resources, active_orders, completed_orders, failed_orders,
                   available_orders, score, customer_satisfaction, reality_stability,
                   timelines, current_phase, max_active_orders, special_events,
                   heap, next_ref, days_left, orders_left, puzzle, attempt, checked,
                   returned>>

PuzzleNext ==
    \/ \E input \in Inputs(puzzle) : SolvePuzzle(input)
    \/ SetProbabilityBonus

SpecPuzzle == PuzzleInit /\ [][PuzzleNext]_vars

\* ------------------------------------------------------- an Order by itself
\* Order(day) is constructed on a kitchen just built, and collapse_state is
\* called on it: every day up to LastDay, which gives every difficulty, and
\* every number of outcomes
LastDay == 12

OrderInit ==
    /\ days_left = 0
    /\ orders_left = 0
    /\ day = 1
    /\ resources = [r \in ResourceType |->
                       CASE r = "QUANTUM_ENERGY" -> 10
                         [] r = "PROBABILITY_STABILIZER" -> 5
                         [] r = "TIMELINE_TOKEN" -> 2]
    /\ active_orders = <<>>
    /\ completed_orders = <<>>
    /\ failed_orders = <<>>
    /\ score = 0
    /\ customer_satisfaction = 50
    /\ reality_stability = 100
    /\ timelines = <<>>
    /\ current_phase = "Planning"
    /\ max_active_orders = 3
    /\ available_orders = <<>>
    /\ special_events = <<>>
    /\ heap = <<>>
    /\ next_ref = 1
    /\ pc = "Order"
    /\ NoPuzzle

\* order = Order(d), with the Quantum Energy it costs and the number of its
\* outcomes drawn, and the smallest time limit, other costs and timeline
ConstructOrder(d, qe, num_outcomes) ==
    /\ pc = "Order"
    /\ heap' = [r \in {next_ref} |-> NewOrder(d, 3, qe, 0, 0, num_outcomes, 1)]
    /\ next_ref' = next_ref + 1
    /\ pc' = "collapse_state"
    /\ UNCHANGED <<day, resources, active_orders, completed_orders, failed_orders,
                   available_orders, score, customer_satisfaction, reality_stability,
                   timelines, current_phase, max_active_orders, special_events,
                   days_left, orders_left>>
    /\ UNCHANGED puzzle_vars

\* order.collapse_state(bonus_probability)
CollapseState(bonus_probability, rand) ==
    /\ pc = "collapse_state"
    /\ heap' = [r \in DOMAIN heap |-> collapse_state(heap[r], bonus_probability, rand)]
    /\ pc' = "collapsed"
    /\ UNCHANGED <<day, resources, active_orders, completed_orders, failed_orders,
                   available_orders, score, customer_satisfaction, reality_stability,
                   timelines, current_phase, max_active_orders, special_events,
                   next_ref, days_left, orders_left>>
    /\ UNCHANGED puzzle_vars

OrderNext ==
    \/ \E d \in 1..LastDay, num_outcomes \in 2..4 :
           \E qe \in 1..(1 + Min(1 + d \div 3, 5)) : ConstructOrder(d, qe, num_outcomes)
    \/ \E bonus_probability \in {FZero, Bonus}, rand \in Rands :
           CollapseState(bonus_probability, rand)

SpecOrder == OrderInit /\ [][OrderNext]_vars

\* ------------------------------------------------- a MiniPuzzle by itself
\* puzzle = MiniPuzzle(order), for an order just constructed whose puzzle is
\* QUANTUM_STATE: setup_puzzle with its draws of the initial state and of the
\* operations
SetupPuzzle ==
    /\ pc = "collapse_state"
    /\ \E r \in DOMAIN heap : puzzle' \in QuantumPuzzles(heap[r].difficulty)
    /\ pc' = "solve_puzzle"
    /\ UNCHANGED <<day, resources, active_orders, completed_orders, failed_orders,
                   available_orders, score, customer_satisfaction, reality_stability,
                   timelines, current_phase, max_active_orders, special_events,
                   heap, next_ref, days_left, orders_left, attempt, checked,
                   returned, probability_bonus>>

SetupNext ==
    \/ \E d \in 1..LastDay, num_outcomes \in 2..4 :
           \E qe \in 1..(1 + Min(1 + d \div 3, 5)) : ConstructOrder(d, qe, num_outcomes)
    \/ SetupPuzzle

SpecSetup == OrderInit /\ [][SetupNext]_vars

\* ================================================================ claims
\* the Order objects alive in the current state
LiveOrders == DOMAIN heap

\* C1: in every reachable state every order has actual_outcome set exactly
\* when its state is COLLAPSED or DELIVERED
ActualOutcomeIffCollapsed ==
    \A r \in LiveOrders :
        (heap[r].actual_outcome # None) <=> (heap[r].state \in {COLLAPSED, DELIVERED})

\* the changes of state an Order can make
LegalMove(a, b) ==
    \/ a = b
    \/ a = SUPERPOSITION /\ b \in {COLLAPSED, FAILED}
    \/ a = COLLAPSED /\ b = DELIVERED

\* every command and event of a run moves every order legally, an order
\* leaving SUPERPOSITION only in the Execution phase and COLLAPSED only in
\* the Delivery phase
StepsMoveLegally ==
    [][\A r \in LiveOrders \cap DOMAIN heap' :
          /\ LegalMove(heap[r].state, heap'[r].state)
          /\ heap[r].state # heap'[r].state =>
                 pc = (IF heap[r].state = SUPERPOSITION THEN "execution" ELSE "delivery")]_vars

\* update_time and deliver_order, called in the current state whatever the
\* phase and with any index, move every order legally
CallsMoveLegally ==
    \A self \in {update_time(Kitchen).self}
                \cup {deliver_order(Kitchen, i, [k \in ResourceType |-> 0]).self :
                         i \in Indexes} :
        \A r \in LiveOrders \cap DOMAIN self.heap :
            LegalMove(heap[r].state, self.heap[r].state)

\* C2: an order's state changes only from SUPERPOSITION to COLLAPSED
\* (prepare) or to FAILED (time expiry) and from COLLAPSED to DELIVERED
\* (deliver); FAILED and DELIVERED are final and SUPERPOSITION is never
\* entered again
OrderStateMachine == StepsMoveLegally /\ []CallsMoveLegally

\* C2 witness: one order was delivered and another one expired
DeliveredAndFailed ==
    \E r, q \in LiveOrders : heap[r].state = DELIVERED /\ heap[q].state = FAILED

\* the moves of run_game's control from one step to the next: within a
\* phase, to the next phase, from Delivery to the next day, out of the loop
PhaseSteps ==
    {<<"advance_day", "check_game_over">>,
     <<"check_game_over", "run_planning_phase">>,
     <<"check_game_over", "show_game_summary">>,
     <<"run_planning_phase", "planning">>,
     <<"planning", "planning">>, <<"planning", "execution">>,
     <<"planning", "show_game_summary">>,
     <<"execution", "execution">>, <<"execution", "delivery">>,
     <<"execution", "show_game_summary">>, <<"execution", "crashed">>,
     <<"delivery", "delivery">>, <<"delivery", "advance_day">>,
     <<"delivery", "show_game_summary">>}

\* the phase that self.current_phase names while control is in a phase
PhaseName ==
    CASE pc \in {"run_planning_phase", "planning"} -> "Planning"
      [] pc = "execution" -> "Execution"
      [] pc = "delivery" -> "Delivery"
      [] OTHER -> current_phase

FiledOrders == AllTimelineOrders(timelines, 1)

\* C4: in every reachable state the timelines index holds exactly the orders
\* of active_orders, each once and under its own timeline id
TimelinesMatchActive ==
    /\ Range(FiledOrders) = Range(active_orders)
    /\ Len(FiledOrders) = Len(active_orders)
    /\ \A k \in 1..Len(timelines) : \A j \in 1..Len(timelines[k].orders) :
           heap[timelines[k].orders[j]].timeline = timelines[k].key

\* the four collections of the kitchen, one after the other
Collections == available_orders \o active_orders \o completed_orders \o failed_orders

\* C5: in every reachable state no order is in two of available_orders,
\* active_orders, completed_orders and failed_orders, nor twice in one of them
CollectionsDisjoint == Cardinality(Range(Collections)) = Len(Collections)

\* C5 witness: one order of the batch is still on offer, another was accepted,
\* prepared and delivered
OfferedAndCompleted == available_orders # <<>> /\ completed_orders # <<>>

\* the active order at 0-based index i lacks some resource
Short(i) ==
    \E r \in ResourceType :
        resources[r] < heap[active_orders[i + 1]].resource_requirements[r]

\* C6: prepare_order on an order in SUPERPOSITION for which the balance of some
\* resource is below the requirement returns failure and leaves the kitchen
\* and the order as they were, whatever the puzzle and the draws
PrepareAllOrNothing ==
    \A i \in 0..(Len(active_orders) - 1) :
        (heap[active_orders[i + 1]].state = SUPERPOSITION /\ Short(i)) =>
            \A puzzle_completed \in BOOLEAN, rand \in Rands, refund_resource \in KindChoices :
                LET ret == prepare_order(Kitchen, i, puzzle_completed, rand, refund_resource)
                IN  ~ret.success /\ ret.self = Kitchen

\* C6 witness: in the Execution phase, after an order was prepared, the next
\* one is in SUPERPOSITION and the energy left is below its requirement
ShortInExecution ==
    /\ pc = "execution"
    /\ \E i \in 0..(Len(active_orders) - 1) :
           /\ heap[active_orders[i + 1]].state = SUPERPOSITION
           /\ Short(i)
           /\ resources["QUANTUM_ENERGY"] > 0
    /\ \E k \in 1..Len(active_orders) : heap[active_orders[k]].state = COLLAPSED

\* C7: when advance_day fires a Reality Distortion whose loss takes
\* reality_stability down to 0, the game-over check that follows ends the run
\* and no Planning phase starts
DistortionToZeroEndsRun ==
    [][\A draw \in EventDraws(Kitchen) :
          (/\ pc = "advance_day"
           /\ draw.event = "REALITY_DISTORTION"
           /\ reality_stability - draw.loss <= 0
           /\ Becomes(advance_day(Kitchen, draw)))
          => check_game_over(Kitchen').success]_vars

\* C8: after advance_day fires a Timeline Shift every active order has a
\* timeline id in 1..min(2 + day div 3, 5) and the timelines index holds
\* exactly the orders of active_orders, each once
ShiftRebuildsIndex ==
    [][(pc = "advance_day" /\ special_events' = Append(special_events, "TIMELINE_SHIFT"))
       => /\ \A r \in Range(active_orders') :
                 heap'[r].timeline \in 1..Min(2 + day \div 3, 5)
          /\ Range(FiledOrders') = Range(active_orders')
          /\ Len(FiledOrders') = Len(active_orders')]_vars

\* C9: collapse_state on an order that is COLLAPSED, FAILED or DELIVERED
\* returns it as it was, with either bonus and whatever random.random() gives
CollapseOnlyOnce ==
    \A r \in LiveOrders :
        heap[r].state # SUPERPOSITION =>
            \A rand \in Rands, bonus_probability \in {FZero, Bonus} :
                collapse_state(heap[r], bonus_probability, rand) = heap[r]

\* C9 witness: one order was collapsed to its second outcome, another expired
CollapsedAndFailed ==
    \E r, q \in LiveOrders :
        /\ heap[r].state = COLLAPSED /\ heap[r].actual_outcome = 2
        /\ heap[q].state = FAILED

\* C10: Order.update_time on an order in SUPERPOSITION with time_remaining t
\* takes 1 from time_remaining; when t <= 1 it returns true and the order is
\* FAILED, otherwise it returns false and the order stays in SUPERPOSITION
TickFailsAtOne ==
    \A r \in LiveOrders :
        heap[r].state = SUPERPOSITION =>
            LET t == heap[r].time_remaining
                u == Order_update_time(heap[r])
            IN  /\ u.ret = (t <= 1)
                /\ u.order = [heap[r] EXCEPT
                                 !.time_remaining = t - 1,
                                 !.state = IF t <= 1 THEN FAILED ELSE SUPERPOSITION]

\* C10 witness: an order expired at time_remaining 0 while another, prepared
\* after two ticks, stopped at time_remaining 1
ExpiredAtZero ==
    \E r, q \in LiveOrders :
        /\ heap[r].state = FAILED /\ heap[r].time_remaining = 0
        /\ heap[q].state = COLLAPSED /\ heap[q].time_remaining = 1

\* C11: in every reachable state customer_satisfaction and reality_stability
\* are between 0 and 100
GaugesInRange ==
    /\ customer_satisfaction \in 0..100
    /\ reality_stability \in 0..100

\* C11 witness: two orders expired at once with reality_stability at 5, and
\* the second expiry stopped at 0
StabilityStoppedAtZero ==
    /\ pc = "execution"
    /\ Len(failed_orders) = 2
    /\ reality_stability = 0
    /\ customer_satisfaction > 0

\* the step is a prepare_order that returned success and left the score at
\* its new value
PreparedTo(new_score) ==
    /\ pc = "execution"
    /\ \E order_idx \in Indexes, puzzle_completed \in BOOLEAN, rand \in Rands,
          refund_resource \in KindChoices :
           LET ret == prepare_order(Kitchen, order_idx, puzzle_completed, rand,
                                    refund_resource)
           IN  ret.success /\ ret.self.score = new_score

ScoreSteps == [][score' >= score /\ (score' # score => PreparedTo(score'))]_vars

\* C12: the score is never negative, no step decreases it, and a step that
\* changes it is a prepare_order that returned success
ScoreOnlyGrows == ScoreSteps /\ [](score >= 0)

\* C12 witness: an order was prepared for a reward and then delivered, the
\* score staying where the preparation left it
ScoredAndDelivered ==
    /\ score > 0
    /\ pc = "delivery"
    /\ Len(completed_orders) = 1

\* C13: in every reachable state the balance of each resource is a
\* non-negative integer
BalancesNonNegative == \A r \in ResourceType : resources[r] \in Nat

\* C13 witness: two preparations took the Quantum Energy down to exactly 0
EnergySpent ==
    /\ pc = "execution"
    /\ resources["QUANTUM_ENERGY"] = 0
    /\ \A k \in 1..Len(active_orders) : heap[active_orders[k]].state = COLLAPSED
    /\ Len(active_orders) = 2

\* what a handler returns when it refuses an index
Refused == Ret(Kitchen, FALSE, "Invalid order index")

NoGain == [r \in ResourceType |-> 0]

\* C14: accept_order, reject_order, prepare_order and deliver_order, given an
\* index below 0 or not below the length of the list they index, return
\* failure with a message, raise nothing and leave the kitchen as it was
InvalidIndexRefused ==
    \A order_idx \in Indexes :
        /\ (order_idx < 0 \/ order_idx >= Len(available_orders)) =>
               /\ accept_order(Kitchen, order_idx) = Refused
               /\ reject_order(Kitchen, order_idx) = Refused
        /\ (order_idx < 0 \/ order_idx >= Len(active_orders)) =>
               /\ \A puzzle_completed \in BOOLEAN, rand \in Rands,
                     refund_resource \in KindChoices :
                      prepare_order(Kitchen, order_idx, puzzle_completed, rand,
                                    refund_resource) = Refused
               /\ deliver_order(Kitchen, order_idx, NoGain) = Refused

\* C14 witness: in the Planning phase one order of two was accepted, so that
\* index 1 is beyond both lists and index 0 within both
OneOfferedOneActive ==
    /\ pc = "planning"
    /\ Len(available_orders) = 1
    /\ Len(active_orders) = 1

\* the handler returned failure and the kitchen is as it was
Untouched(ret) == ~ret.success /\ ret.self = Kitchen

\* C15: prepare_order on an active order that is not in SUPERPOSITION and
\* deliver_order on an active order that is not COLLAPSED return failure and
\* leave the kitchen and every order as they were
WrongStateRefused ==
    \A order_idx \in 0..(Len(active_orders) - 1) :
        LET order == heap[active_orders[order_idx + 1]]
        IN  /\ order.state # SUPERPOSITION =>
                   \A puzzle_completed \in BOOLEAN, rand \in Rands,
                      refund_resource \in KindChoices :
                       Untouched(prepare_order(Kitchen, order_idx, puzzle_completed,
                                               rand, refund_resource))
            /\ order.state # COLLAPSED =>
                   \A gain \in RewardDraws(1) :
                       Untouched(deliver_order(Kitchen, order_idx, gain))

\* C15 witness: in the Execution phase one active order is already COLLAPSED
\* and the other still in SUPERPOSITION with all its time
OnePreparedOneWaiting ==
    /\ pc = "execution"
    /\ \E i, j \in 1..Len(active_orders) :
           /\ heap[active_orders[i]].state = COLLAPSED
           /\ heap[active_orders[j]].state = SUPERPOSITION
           /\ heap[active_orders[j]].time_remaining = heap[active_orders[j]].time_limit

\* C16: with as many active orders as max_active_orders, accept_order returns
\* failure and changes nothing; so active_orders never holds more than
\* max_active_orders, which from the first advance_day on is
\* 3 + min(day div 3, 4)
CapRespected ==
    /\ Len(active_orders) <= max_active_orders
    /\ day >= 2 => max_active_orders = 3 + Min(day \div 3, 4)
    /\ Len(active_orders) = max_active_orders =>
           \A order_idx \in Indexes :
               LET ret == accept_order(Kitchen, order_idx)
               IN  ~ret.success /\ ret.self = Kitchen

\* C16 witness: in the Planning phase three orders are active, as many as
\* max_active_orders, and a fourth is on offer
FullWithOneOffered ==
    /\ pc = "planning"
    /\ Len(active_orders) = 3
    /\ max_active_orders = 3
    /\ Len(available_orders) = 1

\* the values self.sequence lacks, in the order of their positions
Missing(self) ==
    [k \in 1..Cardinality(self.holes) |->
        self.solution[CHOOSE h \in self.holes : FilledBefore(self, h) = k]]

\* the attempt is not checked: input() raised, or a word typed for a
\* SEQUENCE puzzle is not a number
Unparsed(self, input) ==
    \/ input.raised
    \/ /\ self.type = "SEQUENCE"
       /\ \E word \in Range(Split(input.text, 1, <<>>, <<>>)) :
              \E k \in 1..Len(word) : word[k] \notin Range(Digits)

\* the text typed is a correct answer: the missing values in their order,
\* set apart by spaces, or the solution with spaces around it
Right(self, input) ==
    /\ ~input.raised
    /\ CASE self.type = "SEQUENCE" ->
                Split(input.text, 1, <<>>, <<>>)
                    = [k \in 1..Cardinality(self.holes) |-> <<Digits[Missing(self)[k]]>>]
         [] self.type = "PATTERN" -> Split(input.text, 1, <<>>, <<>>) = Missing(self)
         [] OTHER -> Strip(input.text) = self.solution

\* a pass of the loop uses one attempt, checks the answer unless the input
\* does not parse, and ends in return True when the answer is correct
PassesCount ==
    pc = "solve_puzzle" =>
        \A input \in Inputs(puzzle) :
            LET pass == solve_puzzle(puzzle, attempt, checked, input)
            IN  /\ pass.attempt = attempt + 1
                /\ pass.checked = checked + (IF Unparsed(puzzle, input) THEN 0 ELSE 1)
                /\ pass.correct = Right(puzzle, input)

\* the loop goes on while attempts are left and no answer was correct, and
\* probability_bonus is 0.2 when solve_puzzle returned True and 0 otherwise
LoopBounded ==
    /\ attempt <= 3
    /\ pc = "solve_puzzle" => attempt < 3 /\ ~returned
    /\ pc = "collapse_state" =>
           probability_bonus = (IF returned THEN Lit(2, 10) ELSE FZero)

PuzzleSteps ==
    [][pc = "solve_puzzle" =>
          /\ \E input \in Inputs(puzzle) :
                 LET pass == solve_puzzle(puzzle, attempt, checked, input)
                 IN  /\ attempt' = pass.attempt
                     /\ checked' = pass.checked
                     /\ returned' = pass.correct
          /\ pc' = IF returned' \/ attempt' = 3 THEN "probability_bonus"
                   ELSE "solve_puzzle"]_vars

\* C17: solve_puzzle makes at most 3 attempts; it returns True at the first
\* attempt whose parsed answer passes check_solution and attempts no more; an
\* input that does not parse is not checked and uses an attempt; after 3
\* attempts with no correct answer it returns False; probability_bonus is 0.2
\* when it returned True and 0 otherwise
PuzzleLoop == PuzzleSteps /\ [](PassesCount /\ LoopBounded)

\* C17 witness: a SEQUENCE puzzle was solved at the third attempt after two
\* inputs that were not checked, and probability_bonus is 0.2
SolvedAtThirdAttempt ==
    /\ pc = "collapse_state"
    /\ puzzle.type = "SEQUENCE"
    /\ returned
    /\ attempt = 3
    /\ checked = 1
    /\ probability_bonus = Bonus

\* the exact value of a float that is not negative, in units of 2^-64
Units(x) == BShl(x.m, x.e + 64)

\* the exact sum of the positive (sign 1) or negative (sign -1) probabilities
\* of outcomes[1..k], in units of 2^-64
RECURSIVE ExactSum(_, _, _)
ExactSum(outcomes, k, sign) ==
    IF k = 0 THEN <<>>
    ELSE IF outcomes[k].probability.s = sign
    THEN BAdd(ExactSum(outcomes, k - 1, sign), Units(outcomes[k].probability))
    ELSE ExactSum(outcomes, k - 1, sign)

\* the distance between two naturals
Distance(a, b) == IF BCmp(a, b) >= 0 THEN BSub(a, b) ELSE BSub(b, a)

\* how far from 1 the exact sum of the probabilities is, in units of 2^-64
OffOne(outcomes) ==
    Distance(ExactSum(outcomes, Len(outcomes), 1),
             BAdd(BShl(<<1>>, 64), ExactSum(outcomes, Len(outcomes), -1)))

Positive(x) == x.s = 1 /\ x.m # <<>>

\* the orders as generate_possible_outcomes left them
FreshOrders == {r \in LiveOrders : heap[r].state = SUPERPOSITION}

\* C18 as stated: the probabilities of a generated order are positive and
\* their exact sum is 1
GeneratedSumIsOne ==
    \A r \in FreshOrders :
        /\ \A k \in 1..Len(heap[r].possible_outcomes) :
               Positive(heap[r].possible_outcomes[k].probability)
        /\ OffOne(heap[r].possible_outcomes) = <<>>

\* C18: the probabilities of a generated order are positive, and their exact
\* sum is 1 to within 2^-52, for every difficulty and number of outcomes
GeneratedSumNearOne ==
    \A r \in FreshOrders :
        /\ \A k \in 1..Len(heap[r].possible_outcomes) :
               Positive(heap[r].possible_outcomes[k].probability)
        /\ BCmp(OffOne(heap[r].possible_outcomes), BShl(<<1>>, 64 - 52)) <= 0

\* C18 witness: an order of difficulty 5 with 4 outcomes was generated, and
\* the exact sum of its probabilities is not 1
GeneratedOffOne ==
    \E r \in FreshOrders :
        /\ heap[r].difficulty = 5
        /\ Len(heap[r].possible_outcomes) = 4
        /\ OffOne(heap[r].possible_outcomes) # <<>>

\* C19: collapse_state with bonus 0.2 on an order that has 2 possible
\* outcomes samples the distribution it samples with bonus 0
TwoOutcomesUnbiased ==
    \A r \in FreshOrders :
        Len(heap[r].possible_outcomes) = 2 =>
            \A rand \in Rands :
                collapse_state(heap[r], Bonus, rand).possible_outcomes
                    = collapse_state(heap[r], FZero, rand).possible_outcomes

NotNegative(x) == x.s = 1 \/ x.m = <<>>

\* C20: the distribution that collapse_state samples with bonus 0.2 holds no
\* negative probability, and its probabilities sum to 1 to within 2^-52
BiasedNotNegative ==
    \A r \in FreshOrders :
        \A rand \in Rands :
            LET sampled == collapse_state(heap[r], Bonus, rand).possible_outcomes
            IN  /\ \A k \in 1..Len(sampled) : NotNegative(sampled[k].probability)
                /\ BCmp(OffOne(sampled), BShl(<<1>>, 64 - 52)) <= 0

\* C21: for every bonus (0 or 0.2) a call of collapse_state leaves the
\* probabilities stored in the order's possible_outcomes as they were before
\* the call
StoredOutcomesKept ==
    [][\A r \in LiveOrders \cap DOMAIN heap' :
          \A k \in 1..Len(heap[r].possible_outcomes) :
              heap'[r].possible_outcomes[k].probability
                  = heap[r].possible_outcomes[k].probability]_vars

\* the collections that hold the accepted orders, one after the other
Accepted == active_orders \o completed_orders \o failed_orders

\* C22: an order that was accepted is, in every later state, in exactly one
\* of active_orders, completed_orders and failed_orders: no step takes an
\* accepted order out of all of them
AcceptedStayOwned ==
    [][\A r \in Range(Accepted) :
          Cardinality({k \in 1..Len(Accepted') : Accepted'[k] = r}) = 1]_vars

\* C23: control enters the Execution phase only from the Planning phase, by
\* a step taken with active_orders non-empty that changes nothing of the
\* kitchen but current_phase; with no active order and none accepted, a step
\* of the Planning phase stays in Planning unless it quits
PlanningHandsOver ==
    [][/\ (pc' = "execution" /\ pc # "execution") =>
              /\ pc = "planning"
              /\ active_orders # <<>>
              /\ Kitchen' = [Kitchen EXCEPT !.current_phase = "Execution"]
       /\ (pc = "planning" /\ active_orders = <<>> /\ active_orders' = <<>>) =>
              /\ pc' \in {"planning", "show_game_summary"}
              /\ current_phase' = "Planning"]_vars

\* C23 witness: the Execution phase has just begun with two active orders,
\* neither prepared nor ticked
ExecutionBegun ==
    /\ pc = "execution"
    /\ current_phase = "Execution"
    /\ Len(active_orders) = 2
    /\ \A k \in 1..Len(active_orders) :
           /\ heap[active_orders[k]].state = SUPERPOSITION
           /\ heap[active_orders[k]].time_remaining = heap[active_orders[k]].time_limit

\* the states of the active orders
ActiveStates == {heap[active_orders[k]].state : k \in 1..Len(active_orders)}

\* a step that enters the Delivery phase is a step of the Execution phase
\* taken with no active order in SUPERPOSITION
DeliveryEntered ==
    [][(pc' = "delivery" /\ pc # "delivery") =>
           /\ pc = "execution"
           /\ SUPERPOSITION \notin ActiveStates
           /\ Kitchen' = [Kitchen EXCEPT !.current_phase = "Delivery"]]_vars

\* C24: the Execution phase hands over to the Delivery phase only when no
\* active order is in SUPERPOSITION, and in every state of the Delivery phase
\* every order of active_orders is COLLAPSED
ExecutionHandsOver ==
    /\ DeliveryEntered
    /\ []((pc = "delivery" \/ current_phase = "Delivery") => ActiveStates \subseteq {COLLAPSED})

\* C24 witness: in the Delivery phase one active order is COLLAPSED, and the
\* other order of the day expired in the Execution phase
CollapsedInDelivery ==
    /\ pc = "delivery"
    /\ current_phase = "Delivery"
    /\ ActiveStates = {COLLAPSED}
    /\ Len(failed_orders) = 1

\* the step is a rejection: an order left available_orders for no other
\* list, and 2 points of satisfaction went
RejectionStep ==
    /\ pc = "planning"
    /\ Len(available_orders') = Len(available_orders) - 1
    /\ active_orders' = active_orders
    /\ customer_satisfaction' = Max(0, customer_satisfaction - 2)

\* the step is an advance of time at which orders expired: 5 points of
\* satisfaction went for each
ExpiryStep ==
    /\ pc = "execution"
    /\ Len(failed_orders') > Len(failed_orders)
    /\ customer_satisfaction' =
           Max(0, customer_satisfaction - 5 * (Len(failed_orders') - Len(failed_orders)))

\* the step is the forced end of the day: 3 points of satisfaction went for
\* each order still active
AbandonStep ==
    /\ pc = "delivery"
    /\ pc' = "advance_day"
    /\ customer_satisfaction' = Max(0, customer_satisfaction - 3 * Len(active_orders))

\* the step is a preparation: an active order went from SUPERPOSITION to
\* COLLAPSED, and satisfaction moved by a tenth of what its outcome's
\* satisfaction is above or below 50
PreparationStep ==
    /\ pc = "execution"
    /\ \E r \in Range(active_orders) :
           /\ heap[r].state = SUPERPOSITION
           /\ heap'[r].state = COLLAPSED
           /\ heap'[r].actual_outcome # None
           /\ LET outcome == heap'[r].possible_outcomes[heap'[r].actual_outcome]
                  satisfaction_delta ==
                      CASE outcome.satisfaction = 100 -> 5
                        [] outcome.satisfaction = 80 -> 3
                        [] outcome.satisfaction = 50 -> 0
                        [] outcome.satisfaction = 20 -> -3
              IN  customer_satisfaction' =
                      Min(100, Max(0, customer_satisfaction + satisfaction_delta))

\* C25 as stated: customer_satisfaction is changed only by rejection, expiry
\* and abandonment, so that no step raises it
SatisfactionOnlyFalls ==
    [][/\ customer_satisfaction' <= customer_satisfaction
       /\ customer_satisfaction' # customer_satisfaction =>
              RejectionStep \/ ExpiryStep \/ AbandonStep]_vars

\* C25: customer_satisfaction is changed only by rejection (-2), expiry (-5
\* for each order), abandonment (-3 for each order) and a successful
\* prepare_order (+5, +3, 0 or -3 with the outcome); deliver_order and every
\* other operation leave it unchanged
SatisfactionSteps ==
    [][customer_satisfaction' # customer_satisfaction =>
           RejectionStep \/ ExpiryStep \/ AbandonStep \/ PreparationStep]_vars

\* C25 witness: an order was prepared with outcome Perfect, which took
\* customer_satisfaction from 50 to 55, and its delivery left it there
PleasedAndDelivered ==
    /\ pc = "delivery"
    /\ customer_satisfaction = 55
    /\ Len(completed_orders) = 1
    /\ failed_orders = <<>>

\* the three balances together
Balance(r) ==
    r["QUANTUM_ENERGY"] + r["PROBABILITY_STABILIZER"] + r["TIMELINE_TOKEN"]

\* a step that files an order in completed_orders is the delivery of a
\* COLLAPSED active order: it goes from active_orders to completed_orders and
\* out of the timelines index, becomes DELIVERED, and the balances rise
\* together by floor(satisfaction / 20) of its outcome, none of them falling;
\* score, satisfaction and stability stay
DeliverySteps ==
    [][completed_orders' # completed_orders =>
           /\ pc = "delivery"
           /\ \E order_idx \in 0..(Len(active_orders) - 1) :
                  LET ref == active_orders[order_idx + 1]
                      order == heap[ref]
                  IN  /\ order.state = COLLAPSED
                      /\ active_orders' = Pop(active_orders, order_idx)
                      /\ completed_orders' = Append(completed_orders, ref)
                      /\ ref \notin Range(FiledOrders')
                      /\ heap'[ref] = [order EXCEPT !.state = DELIVERED]
                      /\ Balance(resources') = Balance(resources)
                             + order.possible_outcomes[order.actual_outcome].satisfaction
                                   \div 20
                      /\ \A r \in ResourceType : resources'[r] >= resources[r]
                      /\ UNCHANGED <<score, customer_satisfaction, reality_stability>>]_vars

\* in the Delivery phase deliver_order succeeds on every active order that
\* is COLLAPSED, wherever its reward falls
DeliverySucceeds ==
    pc = "delivery" =>
        \A order_idx \in 0..(Len(active_orders) - 1) :
            LET order == heap[active_orders[order_idx + 1]]
            IN  order.state = COLLAPSED =>
                    \A gain \in RewardDraws(
                           order.possible_outcomes[order.actual_outcome].satisfaction
                               \div 20) :
                        LET ret == deliver_order(Kitchen, order_idx, gain)
                        IN  /\ ret.success
                            /\ Len(ret.self.completed_orders) = Len(completed_orders) + 1

\* C26: a successful deliver_order on a COLLAPSED active order moves it from
\* active_orders to completed_orders, takes it out of the timelines index,
\* sets its state to DELIVERED and raises the sum of the three balances by
\* floor(satisfaction / 20) of its outcome, no balance falling; score,
\* satisfaction and stability are unchanged
DeliveryMovesOrder == DeliverySteps /\ []DeliverySucceeds

\* C26 witness: both orders of the day were prepared and delivered
BothDelivered ==
    /\ pc = "delivery"
    /\ active_orders = <<>>
    /\ Len(completed_orders) = 2
    /\ \A k \in 1..2 : heap[completed_orders[k]].state = DELIVERED

\* the active order r runs out at the next advance of time
Expiring(r) == heap[r].state = SUPERPOSITION /\ heap[r].time_remaining <= 1

\* the active order r outlives the next advance of time
Outliving(r) == ~Expiring(r)

\* C27: update_time takes 1 from time_remaining of every active order in
\* SUPERPOSITION and of no other order; each order that expires goes from
\* active_orders to failed_orders and costs 5 customer satisfaction and 5
\* reality stability, neither going below 0; resources and score are unchanged
TimeAdvances ==
    LET ret == update_time(Kitchen)
        expired == SelectSeq(active_orders, Expiring)
    IN  /\ ret.success = (expired # <<>>)
        /\ DOMAIN ret.self.heap = DOMAIN heap
        /\ \A r \in LiveOrders :
               ret.self.heap[r] =
                   IF r \in Range(active_orders) /\ heap[r].state = SUPERPOSITION
                   THEN [heap[r] EXCEPT
                            !.time_remaining = @ - 1,
                            !.state = IF Expiring(r) THEN FAILED ELSE @]
                   ELSE heap[r]
        /\ ret.self.active_orders = SelectSeq(active_orders, Outliving)
        /\ ret.self.failed_orders = failed_orders \o expired
        /\ ret.self.customer_satisfaction = Max(0, customer_satisfaction - 5 * Len(expired))
        /\ ret.self.reality_stability = Max(0, reality_stability - 5 * Len(expired))
        /\ ret.self.resources = resources
        /\ ret.self.score = score

\* C27 witness: after one order was prepared time advanced once: the order in
\* SUPERPOSITION lost a unit of time, the COLLAPSED one kept all of its time
TickedOnce ==
    /\ pc = "execution"
    /\ \E r, q \in Range(active_orders) :
           /\ heap[r].state = SUPERPOSITION
           /\ heap[r].time_remaining = heap[r].time_limit - 1
           /\ heap[q].state = COLLAPSED
           /\ heap[q].time_remaining = heap[q].time_limit

\* the number of operations of the puzzle set up for the order of the heap
OperationsWithin(bound) ==
    pc = "solve_puzzle" =>
        \A r \in LiveOrders :
            /\ puzzle.type = "QUANTUM_STATE"
            /\ Len(puzzle.operations) >= 1
            /\ Len(puzzle.operations) <= bound[heap[r].difficulty]

\* C28 as stated: at every difficulty 1..5 a Quantum State puzzle has at
\* least 1 and at most ceil(difficulty / 2) operations
OperationsUpToHalf == OperationsWithin(<<1, 1, 2, 2, 3>>)

\* C28: at every difficulty 1..5 a Quantum State puzzle has exactly
\* 1 + floor(difficulty / 2) operations: 1, 2, 2, 3, 3
OperationsOneAboveHalf ==
    pc = "solve_puzzle" =>
        \A r \in LiveOrders :
            /\ puzzle.type = "QUANTUM_STATE"
            /\ Len(puzzle.operations) = <<1, 2, 2, 3, 3>>[heap[r].difficulty]

\* C28 witness: a Quantum State puzzle of difficulty 4 was set up with three
\* operations, the last of them H
ThreeOperations ==
    /\ pc = "solve_puzzle"
    /\ \E r \in LiveOrders : heap[r].difficulty = 4
    /\ Len(puzzle.operations) = 3
    /\ puzzle.operations[3] = "H"

\* the kitchen after n calls of update_time
RECURSIVE Advanced(_, _)
Advanced(self, n) == IF n = 0 THEN self ELSE Advanced(update_time(self).self, n - 1)

\* in the Execution phase, time_limit advances of time leave an active order
\* out of SUPERPOSITION
AdvancesSuffice ==
    pc = "execution" =>
        \A r \in Range(active_orders) :
            Advanced(Kitchen, heap[r].time_limit).heap[r].state # SUPERPOSITION

\* C29: in the Execution phase, a player who keeps advancing time comes to a
\* state where no active order is in SUPERPOSITION, unless the run ends
\* before; each order is prepared or expires within time_limit advances
AdvancingEndsExecution ==
    /\ (pc = "execution") ~> (pc # "execution" \/ SUPERPOSITION \notin ActiveStates)
    /\ []AdvancesSuffice

\* C29 witness: in the Execution phase an order expired that the energy left
\* could not pay for, and no active order is in SUPERPOSITION
ExpiredUnaffordable ==
    /\ pc = "execution"
    /\ SUPERPOSITION \notin ActiveStates
    /\ \E r \in Range(failed_orders) :
           resources["QUANTUM_ENERGY"] < heap[r].resource_requirements["QUANTUM_ENERGY"]

\* the Delivery phase returns to the loop of run_game with no active order,
\* and advance_day, with the event it may fire, leaves active_orders empty
\* and the time_remaining of every order as it was
DayLoopSteps ==
    [][/\ (pc = "delivery" /\ pc' = "advance_day") => active_orders' = <<>>
       /\ pc = "advance_day" =>
              /\ active_orders' = <<>>
              /\ \A r \in LiveOrders \cap DOMAIN heap' :
                     heap'[r].time_remaining = heap[r].time_remaining]_vars

\* C30: whenever advance_day runs, and so whenever a special event fires,
\* active_orders is empty: a Quantum Fluctuation changes no time_remaining and
\* a Timeline Shift reassigns no active order
NoActiveAtAdvance == DayLoopSteps /\ [](pc = "advance_day" => active_orders = <<>>)

\* C30 witness: after a day in which an order was delivered, the second
\* advance_day fired a Quantum Fluctuation
FluctuationAfterADay ==
    /\ pc = "check_game_over"
    /\ day = 3
    /\ Len(special_events) = 2
    /\ special_events[2] = "QUANTUM_FLUCTUATION"
    /\ Len(completed_orders) = 1

\* every active order in SUPERPOSITION has between 1 unit of time and its
\* time limit left
TimeWithinLimit ==
    \A r \in Range(active_orders) :
        heap[r].state = SUPERPOSITION =>
            /\ heap[r].time_remaining >= 1
            /\ heap[r].time_remaining <= heap[r].time_limit

\* a step that changes the time_remaining of an order is the command t of
\* the Execution phase, and takes one unit from an active order in
\* SUPERPOSITION
TimeSteps ==
    [][\A r \in LiveOrders \cap DOMAIN heap' :
          heap'[r].time_remaining # heap[r].time_remaining =>
              /\ pc = "execution"
              /\ r \in Range(active_orders)
              /\ heap[r].state = SUPERPOSITION
              /\ heap'[r].time_remaining = heap[r].time_remaining - 1
              /\ heap'[r] = update_time(Kitchen).self.heap[r]]_vars

\* C31: in every reachable state every active order in SUPERPOSITION has
\* 1 <= time_remaining <= time_limit, and the time_remaining of an order
\* changes only by the advance-time command, which takes 1 from it
CountdownBounded == TimeSteps /\ []TimeWithinLimit

\* C31 witness: in the Execution phase both active orders are in
\* SUPERPOSITION with their last unit of time, after two advances
LastUnitLeft ==
    /\ pc = "execution"
    /\ Len(active_orders) = 2
    /\ \A r \in Range(active_orders) :
           /\ heap[r].state = SUPERPOSITION
           /\ heap[r].time_remaining = 1
           /\ heap[r].time_limit = 3

====
